---------------------------- MODULE Spec2Model ----------------------------
(***************************************************************************)
(* Entwine: dataset inference (entwine/util/inference.cpp) and the         *)
(* resolution of a build configuration (entwine/tree/config-parser.cpp).   *)
(*                                                                         *)
(* Three specifications share this module:                                 *)
(*   Spec       Inference::go with its probe tasks running on the pool     *)
(*   SpecBuild  ConfigParser::getBuilder, one call from a user config      *)
(*   SpecOffset the offset rounding of Inference::aggregate, on its own    *)
(*                                                                         *)
(* Conventions.  An optional value (a unique_ptr that may be null, a JSON  *)
(* null) is a sequence: << >> for absent, <<v>> for present.  A Point is a *)
(* triple <<x, y, z>>.  Coordinates and scales are integers; a midpoint,   *)
(* which may have a fractional part of one half, is carried doubled.       *)
(***************************************************************************)
EXTENDS Integers, Sequences, FiniteSets, TLC

\* Most files of one Inference run (every sequence of World paths up to this).
MaxFiles == 2
\* Worker threads of the pool (m_threads).
Threads == 2
\* The offset rounding is checked for doubled midpoints in -MaxMid2..MaxMid2.
MaxMid2 == 70
\* Most keys a user configuration sets besides input and output.
MaxUserKeys == 3

\* std::numeric_limits<double>::max(), scaled to the model's coordinates.
DblMax == 1000000
\* std::numeric_limits<uint32_t>::max().  TLC's integers are 32 bits wide and
\* a file list cannot be enumerated past a few entries, so the width of
\* uint32_t is scaled down: a count or a list size of 3 stands for one that
\* does not fit in 32 bits.
UInt32Max == 2
\* The largest value of a signed 32-bit coordinate (Schema::deltify).
Int32Max == 2147483647

None == << >>
Some(v) == <<v>>

Min(a, b) == IF a <= b THEN a ELSE b
Max(a, b) == IF a >= b THEN a ELSE b
Abs(a) == IF a >= 0 THEN a ELSE -a
Sign(a) == IF a > 0 THEN 1 ELSE IF a < 0 THEN -1 ELSE 0

\* C++ integer division: the quotient is truncated toward zero.
TruncDiv(a, b) == IF a >= 0 THEN a \div b ELSE -((-a) \div b)

\* std::round of a / b for b >= 0: to nearest, halves away from zero; a
\* division by zero gives an infinity, which DblMax stands for.
RoundDiv(a, b) ==
    IF b = 0 THEN Sign(a) * DblMax
    ELSE IF a >= 0 THEN (2 * a + b) \div (2 * b)
    ELSE -((2 * (-a) + b) \div (2 * b))

Range(s) == {s[i] : i \in 1..Len(s)}
Contains(s, v) == \E i \in 1..Len(s) : s[i] = v

-----------------------------------------------------------------------------
(* Point and Bounds *)

PointMin(p, q) == <<Min(p[1], q[1]), Min(p[2], q[2]), Min(p[3], q[3])>>
PointMax(p, q) == <<Max(p[1], q[1]), Max(p[2], q[2]), Max(p[3], q[3])>>

Bounds(lo, hi) == [min |-> lo, max |-> hi]

\* The sentinel every accumulation of bounds starts from.
expander == Bounds(<<DblMax, DblMax, DblMax>>, <<-DblMax, -DblMax, -DblMax>>)

GrowPoint(b, p) == Bounds(PointMin(b.min, p), PointMax(b.max, p))
GrowBounds(b, c) == Bounds(PointMin(b.min, c.min), PointMax(b.max, c.max))

\* Twice Bounds::mid(): min + max on each axis.
Mid2(b) == <<b.min[1] + b.max[1], b.min[2] + b.max[2], b.min[3] + b.max[3]>>

\* b lies inside g.
Inside(b, g) ==
    \A a \in 1..3 : g.min[a] <= b.min[a] /\ b.max[a] <= g.max[a]

\* Delta: q = round((p - offset) / scale) on each axis.
Delta(scale, offset) == [scale |-> scale, offset |-> offset]

ScalePoint(p, d) ==
    [a \in 1..3 |-> RoundDiv(p[a] - d.offset[a], d.scale[a])]

Deltify(b, d) == Bounds(ScalePoint(b.min, d), ScalePoint(b.max, d))

\* Bounds::cubeify(delta): the deltified bounds grown to a cube around their
\* midpoint.
Cubeify(b, optDelta) ==
    LET q == IF optDelta = None THEN b ELSE Deltify(b, optDelta[1])
        m == Mid2(q)
        r == Max(Max(q.max[1] - q.min[1], q.max[2] - q.min[2]),
                 q.max[3] - q.min[3])
        c == [a \in 1..3 |-> TruncDiv(m[a], 2)]
        h == (r + 1) \div 2
    IN  Bounds([a \in 1..3 |-> c[a] - h], [a \in 1..3 |-> c[a] + h])

-----------------------------------------------------------------------------
(* Schema *)

DimInfo(name, type, size) == [name |-> name, type |-> type, size |-> size]

\* pdal::Dimension::defaultType(pdal::Dimension::id(name)); a name PDAL does
\* not know makes defaultType throw, and makeSchema then takes Double.
DefaultType(name) ==
    CASE name \in {"X", "Y", "Z"} -> DimInfo(name, "floating", 8)
      [] name = "Intensity" -> DimInfo(name, "unsigned", 2)
      [] name \in {"PointId", "OriginId"} -> DimInfo(name, "unsigned", 4)
      [] OTHER -> DimInfo(name, "floating", 8)

RECURSIVE PointSize(_)
PointSize(dims) ==
    IF dims = << >> THEN 0 ELSE Head(dims).size + PointSize(Tail(dims))

\* Schema::deltify: X, Y and Z become signed integers wide enough for the cube.
SchemaDeltify(cube, dims) ==
    LET fits(a) == -Int32Max - 1 <= cube.min[a] /\ cube.max[a] <= Int32Max
        axis(n) == CASE n = "X" -> 1 [] n = "Y" -> 2 [] n = "Z" -> 3
    IN  [i \in 1..Len(dims) |->
            IF dims[i].name \in {"X", "Y", "Z"}
            THEN DimInfo(dims[i].name, "signed",
                         IF fits(axis(dims[i].name)) THEN 4 ELSE 8)
            ELSE dims[i]]

DimNames(dims) == [i \in 1..Len(dims) |-> dims[i].name]

-----------------------------------------------------------------------------
(* The files the reader and the blob endpoint can be asked about.          *)
(* good: Executor::good(path).  http: Arbiter::isHttpDerived(path).        *)
(* preview: what Executor::preview returns for the file's bytes.           *)
(* scan: the points Executor::run streams, or absent when run fails.       *)
(* The boxes are ECEF boxes around the equator at longitude 0, so that the *)
(* Cesium frame is exact in integers; all coordinates are even.            *)

Preview(n, b, dims, srs, scale) ==
    [numPoints |-> n, bounds |-> b, dimNames |-> dims, srs |-> srs,
     scale |-> scale]

Paths ==
    {"a.laz", "b.laz", "http://h/c.laz", "http://h/d/e.laz",
     "http://h/d-e.laz", "z.laz", "bad.txt", "e.xyz", "n.laz"}

World ==
    [p \in Paths |->
        CASE p = "a.laz" ->
                [http |-> FALSE, good |-> TRUE,
                 preview |-> Some(Preview(2,
                     Bounds(<<0, -10, -4>>, <<10, 10, 4>>),
                     <<"X", "Y", "Z">>, "EPSG:26915", None)),
                 scan |-> Some(<< <<2, 0, 0>> >>)]
          [] p = "b.laz" ->
                [http |-> FALSE, good |-> TRUE,
                 preview |-> Some(Preview(3,
                     Bounds(<<6, -20, -6>>, <<16, 20, 6>>),
                     <<"X", "Y", "Z", "Intensity">>, "EPSG:26915",
                     Some(<<2, 1, 2>>))),
                 scan |-> Some(<< <<8, -4, 2>>, <<12, 4, -2>> >>)]
          [] p = "http://h/c.laz" ->
                [http |-> TRUE, good |-> TRUE,
                 preview |-> Some(Preview(1,
                     Bounds(<<100, -2, -2>>, <<120, 2, 2>>),
                     <<"Z", "X", "Y", "PointId">>, "EPSG:4978",
                     Some(<<1, 2, 2>>))),
                 scan |-> None]
          [] p = "http://h/d/e.laz" ->
                [http |-> TRUE, good |-> TRUE,
                 preview |-> Some(Preview(2,
                     Bounds(<<20, -6, -2>>, <<30, 6, 2>>),
                     <<"X", "Y", "Z">>, "", None)),
                 scan |-> None]
          [] p = "http://h/d-e.laz" ->
                [http |-> TRUE, good |-> TRUE,
                 preview |-> Some(Preview(1,
                     Bounds(<<40, -2, -2>>, <<44, 2, 2>>),
                     <<"X", "Y", "Z">>, "", Some(<<0, 1, 1>>))),
                 scan |-> None]
          [] p = "z.laz" ->
                [http |-> FALSE, good |-> TRUE,
                 preview |-> Some(Preview(1,
                     Bounds(<<0, -2, -2>>, <<2, 2, 2>>),
                     <<"X", "Y", "Z">>, "", Some(<<1, 0, 1>>))),
                 scan |-> Some(<< <<2, 0, 0>> >>)]
          [] p = "bad.txt" ->
                [http |-> FALSE, good |-> FALSE,
                 preview |-> None, scan |-> None]
          [] p = "e.xyz" ->
                [http |-> FALSE, good |-> TRUE,
                 preview |-> None,
                 scan |-> Some(<< <<4, 0, 0>> >>)]
          [] p = "n.laz" ->
                [http |-> FALSE, good |-> TRUE,
                 preview |-> Some(Preview(1, expander,
                     <<"X", "Y", "Z">>, "", None)),
                 scan |-> Some(<< >>)]]


\* The characters of a path, one by one.
PathChars(path) ==
    CASE path = "a.laz" ->
            <<"a", ".", "l", "a", "z">>
      [] path = "b.laz" ->
            <<"b", ".", "l", "a", "z">>
      [] path = "http://h/c.laz" ->
            <<"h", "t", "t", "p", ":", "/", "/", "h", "/", "c", ".", "l",
              "a", "z">>
      [] path = "http://h/d/e.laz" ->
            <<"h", "t", "t", "p", ":", "/", "/", "h", "/", "d", "/", "e",
              ".", "l", "a", "z">>
      [] path = "http://h/d-e.laz" ->
            <<"h", "t", "t", "p", ":", "/", "/", "h", "/", "d", "-", "e",
              ".", "l", "a", "z">>
      [] path = "z.laz" ->
            <<"z", ".", "l", "a", "z">>
      [] path = "bad.txt" ->
            <<"b", "a", "d", ".", "t", "x", "t">>
      [] path = "e.xyz" ->
            <<"e", ".", "x", "y", "z">>
      [] path = "n.laz" ->
            <<"n", ".", "l", "a", "z">>

\* std::replace(name.begin(), name.end(), '/', '-') and the same for '\'.
ReplaceChar(c) == IF c = "/" \/ c = "\\" THEN "-" ELSE c

RECURSIVE ReplaceAll(_)
ReplaceAll(chars) ==
    IF chars = << >> THEN << >>
    ELSE <<ReplaceChar(Head(chars))>> \o ReplaceAll(Tail(chars))

\* The temp file name of an HTTP-derived path: every '/' and '\' becomes '-'.
TmpName(path) == ReplaceAll(PathChars(path))

-----------------------------------------------------------------------------
(* Inference: the parts of add, aggregate, makeSchema and go that compute. *)

\* FileInfo(path): a record that holds a path and nothing else yet.
FileInfo(path) ==
    [path |-> path, status |-> "outstanding", numPoints |-> 0,
     bounds |-> None, srs |-> ""]

\* A scale check that forgets the y axis.
InvalidScale_ignoresY(scale) == scale[1] = 0 \/ scale[3] = 0

\* add: a declared scale with a zero component is refused.
InvalidScale(scale) == scale[1] = 0 \/ scale[2] = 0 \/ scale[3] = 0

\* A merge in which the scale merged last wins.
MergeDelta_lastWins(optDelta, scale, allowDelta) ==
    IF optDelta # None THEN Some(Delta(scale, optDelta[1].offset))
    ELSE IF allowDelta THEN Some(Delta(scale, <<0, 0, 0>>)) ELSE None

\* add: the smallest scale wins; the first one creates the delta if allowed.
MergeDelta(optDelta, scale, allowDelta) ==
    IF optDelta # None
    THEN Some(Delta(PointMin(optDelta[1].scale, scale), optDelta[1].offset))
    ELSE IF allowDelta THEN Some(Delta(scale, <<0, 0, 0>>)) ELSE None

\* A merge that appends every name, known or not.
MergeDims_appendsAll(dimVec, names) == dimVec \o names

\* add: names not yet in m_dimSet are appended to m_dimVec, in order.
RECURSIVE MergeDims(_, _)
MergeDims(dimVec, names) ==
    IF names = << >> THEN dimVec
    ELSE MergeDims(IF Contains(dimVec, Head(names)) THEN dimVec
                   ELSE Append(dimVec, Head(names)),
                   Tail(names))

\* add: the tracker counts the streamed points and grows the running bounds.
RECURSIVE Tracker(_, _)
Tracker(cur, points) ==
    IF points = << >> THEN cur
    ELSE Tracker([numPoints |-> cur.numPoints + 1,
                  bounds |-> GrowPoint(cur.bounds, Head(points))],
                 Tail(points))

\* add: the update lambda.
Update(fileInfo, i, numPoints, bounds) ==
    [fileInfo EXCEPT ![i].numPoints = numPoints, ![i].bounds = Some(bounds)]

\* A record step that takes the preview whenever there is one.
Record_alwaysPreview(fileInfo, i, optPreview, content, trustHeaders) ==
    IF optPreview # None
    THEN Update(fileInfo, i, optPreview[1].numPoints, optPreview[1].bounds)
    ELSE IF content # None /\ World[content[1]].scan # None
         THEN LET t == Tracker([numPoints |-> 0, bounds |-> expander],
                               World[content[1]].scan[1])
              IN  Update(fileInfo, i, t.numPoints, t.bounds)
         ELSE fileInfo

\* add, after the merge: the trusted preview is recorded, or the file is
\* scanned and the scan recorded if it succeeds.  content is the local file
\* the reader opens (absent when the file is not there).
Record(fileInfo, i, optPreview, content, trustHeaders) ==
    IF optPreview # None /\ trustHeaders
    THEN Update(fileInfo, i, optPreview[1].numPoints, optPreview[1].bounds)
    ELSE IF content # None /\ World[content[1]].scan # None
         THEN LET t == Tracker([numPoints |-> 0, bounds |-> expander],
                               World[content[1]].scan[1])
              IN  Update(fileInfo, i, t.numPoints, t.bounds)
         ELSE fileInfo

\* A sum that stops after the first record.
AggregateNumPoints_firstOnly(fileInfo) ==
    IF fileInfo = << >> THEN 0 ELSE Head(fileInfo).numPoints

\* aggregate: the sum of every record's numPoints.
RECURSIVE AggregateNumPoints(_)
AggregateNumPoints(fileInfo) ==
    IF fileInfo = << >> THEN 0
    ELSE Head(fileInfo).numPoints + AggregateNumPoints(Tail(fileInfo))

\* aggregate: the expander grown by every record's bounds.
RECURSIVE GrowAll(_, _)
GrowAll(acc, fileInfo) ==
    IF fileInfo = << >> THEN acc
    ELSE GrowAll(IF Head(fileInfo).bounds # None
                 THEN GrowBounds(acc, Head(fileInfo).bounds[1]) ELSE acc,
                 Tail(fileInfo))

\* Bounds that leave the first record out.
AggregateBounds_skipsFirst(fileInfo) ==
    IF fileInfo = << >> THEN expander ELSE GrowAll(expander, Tail(fileInfo))

AggregateBounds(fileInfo) == GrowAll(expander, fileInfo)

\* aggregate: the SRS strings, each once, in file order.
RECURSIVE AggregateSrs(_, _)
AggregateSrs(srsList, fileInfo) ==
    IF fileInfo = << >> THEN srsList
    ELSE AggregateSrs(
            IF Head(fileInfo).srs # "" /\ ~Contains(srsList, Head(fileInfo).srs)
            THEN Append(srsList, Head(fileInfo).srs) ELSE srsList,
            Tail(fileInfo))

\* aggregate: the offset of one axis from the doubled midpoint mid2 (d=mid2/2):
\*   const int64_t v(d);
\*   if (static_cast<double>(v / 10 * 10) == d) return v;
\*   else return (v + 10) / 10 * 10;
OffsetAxis(mid2) ==
    LET v == TruncDiv(mid2, 2)
    IN  IF 2 * (TruncDiv(v, 10) * 10) = mid2 THEN v
        ELSE TruncDiv(v + 10, 10) * 10

AggregateOffset(bounds) == [a \in 1..3 |-> OffsetAxis(Mid2(bounds)[a])]

\* aggregate: every record that has bounds gets them deltified.
RECURSIVE DeltifyFiles(_, _)
DeltifyFiles(fileInfo, delta) ==
    IF fileInfo = << >> THEN << >>
    ELSE <<IF Head(fileInfo).bounds # None
           THEN [Head(fileInfo) EXCEPT
                    !.bounds = Some(Deltify(Head(fileInfo).bounds[1], delta))]
           ELSE Head(fileInfo)>>
         \o DeltifyFiles(Tail(fileInfo), delta)

\* makeSchema.
MakeSchema(dimVec, optDelta, bounds) ==
    LET dims == [i \in 1..Len(dimVec) |-> DefaultType(dimVec[i])]
    IN  IF optDelta # None
        THEN SchemaDeltify(Cubeify(bounds, optDelta), dims)
        ELSE dims

\* Post-conditions that forget the bounds.
PostCondition_skipsBounds(numPoints, schema, bounds) ==
    IF numPoints = 0 THEN "ZeroPoints"
    ELSE IF PointSize(schema) = 0 THEN "EmptySchema"
    ELSE "ok"

\* go: the post-conditions after aggregate and makeSchema.
PostCondition(numPoints, schema, bounds) ==
    IF numPoints = 0 THEN "ZeroPoints"
    ELSE IF PointSize(schema) = 0 THEN "EmptySchema"
    ELSE IF bounds = expander THEN "NoBounds"
    ELSE "ok"

-----------------------------------------------------------------------------
(* The Cesium transformation.  A matrix is a row-major sequence of 16.     *)

Dot(a, b) == a[1] * b[1] + a[2] * b[2] + a[3] * b[3]
Cross(a, b) == <<a[2] * b[3] - a[3] * b[2],
                 a[3] * b[1] - a[1] * b[3],
                 a[1] * b[2] - a[2] * b[1]>>

\* Vector::normalize, exact for a vector along one axis (the model's boxes
\* keep every midpoint on the x axis; see World).
Normalize(v) ==
    CASE Cardinality({a \in 1..3 : v[a] # 0}) = 1 ->
            <<Sign(v[1]), Sign(v[2]), Sign(v[3])>>

\* matrix::multiply.
Multiply(m, n) ==
    [k \in 1..16 |->
        LET r == (k - 1) \div 4
            c == (k - 1) % 4
        IN  m[4 * r + 1] * n[c + 1] + m[4 * r + 2] * n[c + 5]
          + m[4 * r + 3] * n[c + 9] + m[4 * r + 4] * n[c + 13]]

ApplyMatrix(m, p) ==
    [a \in 1..3 |->
        m[4 * (a - 1) + 1] * p[1] + m[4 * (a - 1) + 2] * p[2]
      + m[4 * (a - 1) + 3] * p[3] + m[4 * (a - 1) + 4]]

\* Executor::transform: the box around the images of the eight corners.
Transform(b, m) ==
    LET corners == {ApplyMatrix(m, <<x, y, z>>) :
                        x \in {b.min[1], b.max[1]},
                        y \in {b.min[2], b.max[2]},
                        z \in {b.min[3], b.max[3]}}
        lo(a) == CHOOSE v \in {c[a] : c \in corners} :
                     \A c \in corners : v <= c[a]
        hi(a) == CHOOSE v \in {c[a] : c \in corners} :
                     \A c \in corners : v >= c[a]
    IN  Bounds(<<lo(1), lo(2), lo(3)>>, <<hi(1), hi(2), hi(3)>>)

\* calcTransformation: rotate so that up is outward, then move the rotated
\* bounds' midpoint to the origin.
CalcTransformation(nativeBounds) ==
    LET up == Normalize(Mid2(nativeBounds))
        northPole == <<0, 0, 1>>
        dot == Dot(up, northPole)
        proj == [a \in 1..3 |-> up[a] * dot]
        north == Normalize([a \in 1..3 |-> northPole[a] - proj[a]])
        east == Cross(north, up)
        rotation == <<east[1],  east[2],  east[3],  0,
                      north[1], north[2], north[3], 0,
                      up[1],    up[2],    up[3],    0,
                      0,        0,        0,        1>>
        center == Mid2(Transform(nativeBounds, rotation))
        translation == <<1, 0, 0, -TruncDiv(center[1], 2),
                         0, 1, 0, -TruncDiv(center[2], 2),
                         0, 0, 1, -TruncDiv(center[3], 2),
                         0, 0, 0, 1>>
    IN  Multiply(translation, rotation)

\* A loop that passes over a record without bounds instead of failing.
RECURSIVE CesiumLoop_skipsMissing(_, _, _, _)
CesiumLoop_skipsMissing(fileInfo, i, m, bounds) ==
    IF i > Len(fileInfo)
    THEN [err |-> "ok", fileInfo |-> fileInfo, bounds |-> bounds]
    ELSE IF fileInfo[i].bounds = None
    THEN CesiumLoop_skipsMissing(fileInfo, i + 1, m, bounds)
    ELSE LET t == Transform(fileInfo[i].bounds[1], m)
         IN  CesiumLoop_skipsMissing([fileInfo EXCEPT ![i].bounds = Some(t)],
                                     i + 1, m, GrowBounds(bounds, t))

\* go, Cesium: the loop over the files.  It stops at the first record that
\* has no bounds; the records before it are already transformed.
RECURSIVE CesiumLoop(_, _, _, _)
CesiumLoop(fileInfo, i, m, bounds) ==
    IF i > Len(fileInfo)
    THEN [err |-> "ok", fileInfo |-> fileInfo, bounds |-> bounds]
    ELSE IF fileInfo[i].bounds = None
    THEN [err |-> "MissingBoundsForTransform", fileInfo |-> fileInfo,
          bounds |-> bounds]
    ELSE LET t == Transform(fileInfo[i].bounds[1], m)
         IN  CesiumLoop([fileInfo EXCEPT ![i].bounds = Some(t)], i + 1, m,
                        GrowBounds(bounds, t))


-----------------------------------------------------------------------------
(* Inference::go: the state of one Inference instance, its pool and tasks. *)

VARIABLES
    m_trustHeaders,     \* constructor arguments
    m_allowDelta,
    m_cesiumify,
    m_fileInfo,         \* the file records
    m_delta,            \* optional Delta, shared by the probe tasks
    m_dimVec,           \* the ordered dimension names (m_dimSet is its range)
    m_numPoints,        \* optional, set by aggregate
    m_bounds,           \* optional, set by aggregate
    m_schema,           \* optional, set by makeSchema
    m_srsList,
    m_transformation,   \* optional matrix
    m_done,
    m_pool,             \* TRUE once go has created the pool
    m_index,            \* next file of go's submit loop (1-based)
    valid,              \* go's local: some file was accepted by the reader
    goPc,               \* where the main thread is inside go
    goErr,              \* the error go failed with
    goErr2,             \* what a later call of go threw, "" if none did
    task,               \* per file: the probe task's position and its preview
    m_mutex,            \* 0 when free, else the file whose task holds it
    m_tmp,              \* the temp endpoint: file name -> the path it caches
    poolErrs            \* failures captured by the pool, in order

inferVars ==
    <<m_trustHeaders, m_allowDelta, m_cesiumify, m_fileInfo, m_delta,
      m_dimVec, m_numPoints, m_bounds, m_schema, m_srsList,
      m_transformation, m_done, m_pool, m_index, valid, goPc, goErr, goErr2,
      task, m_mutex, m_tmp, poolErrs>>

(* getBuilder: the state of one call. *)

VARIABLES
    user,           \* the configuration getBuilder is called with
    markers,        \* the files present at the output endpoint
    bPc,            \* "ready" before the call, "done" after it
    normalized,     \* optional: json as normalizeInput left it
    probed,         \* tryGetExisting looked at the output endpoint
    inferred,       \* optional: the result of the Inference that was run
    builder,        \* optional: the Builder returned
    bErr            \* the error getBuilder threw, if any

buildVars ==
    <<user, markers, bPc, normalized, probed, inferred, builder, bErr>>

(* The offset rounding on its own. *)

VARIABLES
    offMid2,        \* twice the midpoint of the global bounds on the axis
    offset          \* optional: the offset aggregate chose for it

offsetVars == <<offMid2, offset>>

Files == 1..Len(m_fileInfo)

\* A task occupies a worker from the moment it starts until it ends.
Running == {i \in Files : task[i].pc \notin {"idle", "queued", "done", "thrown"}}
Finished(i) == task[i].pc \in {"idle", "done", "thrown"}

\* Inference(paths, ...): one record per resolved path, nothing probed yet.
InferInitOver(paths) ==
    /\ \E n \in 0..MaxFiles : \E ps \in [1..n -> paths] :
          m_fileInfo = [i \in 1..n |-> FileInfo(ps[i])]
    /\ m_trustHeaders \in BOOLEAN
    /\ m_allowDelta \in BOOLEAN
    /\ m_cesiumify \in BOOLEAN
    /\ m_delta = None
    /\ m_dimVec = << >>
    /\ m_numPoints = None
    /\ m_bounds = None
    /\ m_schema = None
    /\ m_srsList = << >>
    /\ m_transformation = None
    /\ m_done = FALSE
    /\ m_pool = FALSE
    /\ m_index = 1
    /\ valid = FALSE
    /\ goPc = "ready"
    /\ goErr = ""
    /\ goErr2 = ""
    /\ task = [i \in 1..Len(m_fileInfo) |-> [pc |-> "idle", preview |-> None]]
    /\ m_mutex = 0
    /\ m_tmp = << >>
    /\ poolErrs = << >>

\* The paths of the runs of Spec: every kind of file, one HTTP-derived.
GoPaths ==
    {"a.laz", "b.laz", "http://h/c.laz", "z.laz", "bad.txt", "e.xyz", "n.laz"}

InferInit == InferInitOver(GoPaths)

\* go: the pool is created.
GoStart ==
    /\ goPc = "ready"
    /\ ~m_pool
    /\ m_pool' = TRUE
    /\ valid' = FALSE
    /\ m_index' = 1
    /\ goPc' = "submit"
    /\ UNCHANGED <<goErr2, m_trustHeaders, m_allowDelta, m_cesiumify, m_fileInfo,
                   m_delta, m_dimVec, m_numPoints, m_bounds, m_schema,
                   m_srsList, m_transformation, m_done, goErr, task, m_mutex,
                   m_tmp, poolErrs>>
    /\ UNCHANGED <<buildVars, offsetVars>>

\* go: one turn of the loop over the files: a file the reader accepts gets a
\* task on the pool, any other is marked omitted.
GoSubmit ==
    /\ goPc = "submit"
    /\ m_index <= Len(m_fileInfo)
    /\ IF World[m_fileInfo[m_index].path].good
       THEN /\ valid' = TRUE
            /\ task' = [task EXCEPT ![m_index].pc = "queued"]
            /\ UNCHANGED m_fileInfo
       ELSE /\ m_fileInfo' = [m_fileInfo EXCEPT ![m_index].status = "omitted"]
            /\ UNCHANGED <<valid, task>>
    /\ m_index' = m_index + 1
    /\ UNCHANGED <<goErr2, m_trustHeaders, m_allowDelta, m_cesiumify, m_delta,
                   m_dimVec, m_numPoints, m_bounds, m_schema, m_srsList,
                   m_transformation, m_done, m_pool, goPc, goErr, m_mutex,
                   m_tmp, poolErrs>>
    /\ UNCHANGED <<buildVars, offsetVars>>

\* A join that returns while tasks are still running.
GoJoin_doesNotWait ==
    /\ goPc = "submit"
    /\ m_index > Len(m_fileInfo)
    /\ IF poolErrs # << >>
       THEN goPc' = "failed" /\ goErr' = poolErrs[1]
       ELSE IF ~valid
       THEN goPc' = "failed" /\ goErr' = "NoValidInputs"
       ELSE goPc' = "aggregate" /\ UNCHANGED goErr
    /\ UNCHANGED <<goErr2, m_trustHeaders, m_allowDelta, m_cesiumify,
                   m_fileInfo, m_delta, m_dimVec, m_numPoints, m_bounds,
                   m_schema, m_srsList, m_transformation, m_done, m_pool,
                   m_index, valid, task, m_mutex, m_tmp, poolErrs>>
    /\ UNCHANGED <<buildVars, offsetVars>>

\* go: m_pool->join() returns once every submitted task has ended; a failure
\* captured from a task surfaces here, and then the check of valid follows.
GoJoin ==
    /\ goPc = "submit"
    /\ m_index > Len(m_fileInfo)
    /\ \A i \in Files : Finished(i)
    /\ IF poolErrs # << >>
       THEN goPc' = "failed" /\ goErr' = poolErrs[1]
       ELSE IF ~valid
       THEN goPc' = "failed" /\ goErr' = "NoValidInputs"
       ELSE goPc' = "aggregate" /\ UNCHANGED goErr
    /\ UNCHANGED <<goErr2, m_trustHeaders, m_allowDelta, m_cesiumify, m_fileInfo,
                   m_delta, m_dimVec, m_numPoints, m_bounds, m_schema,
                   m_srsList, m_transformation, m_done, m_pool, m_index,
                   valid, task, m_mutex, m_tmp, poolErrs>>
    /\ UNCHANGED <<buildVars, offsetVars>>

\* aggregate.
GoAggregate ==
    /\ goPc = "aggregate"
    /\ m_numPoints' = Some(AggregateNumPoints(m_fileInfo))
    /\ m_bounds' = Some(AggregateBounds(m_fileInfo))
    /\ m_srsList' = AggregateSrs(m_srsList, m_fileInfo)
    /\ IF m_delta # None
       THEN LET d == Delta(m_delta[1].scale,
                           AggregateOffset(AggregateBounds(m_fileInfo)))
            IN  /\ m_delta' = Some(d)
                /\ m_fileInfo' = DeltifyFiles(m_fileInfo, d)
       ELSE UNCHANGED <<m_delta, m_fileInfo>>
    /\ goPc' = "schema"
    /\ UNCHANGED <<goErr2, m_trustHeaders, m_allowDelta, m_cesiumify, m_dimVec,
                   m_schema, m_transformation, m_done, m_pool, m_index, valid,
                   goErr, task, m_mutex, m_tmp, poolErrs>>
    /\ UNCHANGED <<buildVars, offsetVars>>

\* makeSchema.
GoMakeSchema ==
    /\ goPc = "schema"
    /\ m_schema' = Some(MakeSchema(m_dimVec, m_delta, m_bounds[1]))
    /\ goPc' = "check"
    /\ UNCHANGED <<goErr2, m_trustHeaders, m_allowDelta, m_cesiumify, m_fileInfo,
                   m_delta, m_dimVec, m_numPoints, m_bounds, m_srsList,
                   m_transformation, m_done, m_pool, m_index, valid, goErr,
                   task, m_mutex, m_tmp, poolErrs>>
    /\ UNCHANGED <<buildVars, offsetVars>>

\* go: the three post-conditions; without Cesium output go is done here.
GoCheck ==
    /\ goPc = "check"
    /\ LET e == PostCondition(m_numPoints[1], m_schema[1], m_bounds[1])
       IN  IF e # "ok"
           THEN goPc' = "failed" /\ goErr' = e /\ UNCHANGED m_done
           ELSE IF m_cesiumify
           THEN goPc' = "cesium" /\ UNCHANGED <<goErr, m_done>>
           ELSE goPc' = "done" /\ m_done' = TRUE /\ UNCHANGED goErr
    /\ UNCHANGED <<goErr2, m_trustHeaders, m_allowDelta, m_cesiumify, m_fileInfo,
                   m_delta, m_dimVec, m_numPoints, m_bounds, m_schema,
                   m_srsList, m_transformation, m_pool, m_index, valid, task,
                   m_mutex, m_tmp, poolErrs>>
    /\ UNCHANGED <<buildVars, offsetVars>>

\* go: the Cesium block.
GoCesium ==
    /\ goPc = "cesium"
    /\ LET m == CalcTransformation(m_bounds[1])
           r == CesiumLoop(m_fileInfo, 1, m, expander)
       IN  /\ m_transformation' = Some(m)
           /\ m_fileInfo' = r.fileInfo
           /\ m_bounds' = Some(r.bounds)
           /\ IF r.err = "ok"
              THEN goPc' = "done" /\ m_done' = TRUE /\ UNCHANGED goErr
              ELSE goPc' = "failed" /\ goErr' = r.err /\ UNCHANGED m_done
    /\ UNCHANGED <<goErr2, m_trustHeaders, m_allowDelta, m_cesiumify, m_delta,
                   m_dimVec, m_numPoints, m_schema, m_srsList, m_pool,
                   m_index, valid, task, m_mutex, m_tmp, poolErrs>>
    /\ UNCHANGED <<buildVars, offsetVars>>

\* A later call that runs instead of throwing and drops the aggregates.
GoAgain_runsAgain ==
    /\ goPc \in {"done", "failed"}
    /\ m_pool
    /\ m_numPoints' = None
    /\ m_bounds' = None
    /\ m_schema' = None
    /\ UNCHANGED <<goErr2, m_trustHeaders, m_allowDelta, m_cesiumify,
                   m_fileInfo, m_delta, m_dimVec, m_srsList, m_transformation,
                   m_done, m_pool, m_index, valid, goPc, goErr, task, m_mutex,
                   m_tmp, poolErrs>>
    /\ UNCHANGED <<buildVars, offsetVars>>

\* go, called after an earlier call returned or threw: m_pool is set, and the
\* call throws before it changes anything.
GoAgain ==
    /\ goPc \in {"done", "failed"}
    /\ m_pool
    /\ goErr2' = "DoubleRun"
    /\ UNCHANGED <<m_trustHeaders, m_allowDelta, m_cesiumify, m_fileInfo,
                   m_delta, m_dimVec, m_numPoints, m_bounds, m_schema,
                   m_srsList, m_transformation, m_done, m_pool, m_index, valid,
                   goPc, goErr, task, m_mutex, m_tmp, poolErrs>>
    /\ UNCHANGED <<buildVars, offsetVars>>

-----------------------------------------------------------------------------
(* The probe task of file i, as the pool's workers run it. *)

\* The local file the reader opens for file i: the temp file of an
\* HTTP-derived path (absent if no such file is there), else the path.
LocalContent(i) ==
    LET path == m_fileInfo[i].path
    IN  IF World[path].http
        THEN IF TmpName(path) \in DOMAIN m_tmp
             THEN Some(m_tmp[TmpName(path)]) ELSE None
        ELSE Some(path)

\* A worker takes the task: an HTTP-derived path has its first bytes fetched
\* and put into the temp endpoint, any other path yields a local handle.
TaskStart(i) ==
    /\ task[i].pc = "queued"
    /\ Cardinality(Running) < Threads
    /\ LET path == m_fileInfo[i].path
       IN  IF World[path].http
           THEN m_tmp' = [n \in DOMAIN m_tmp \cup {TmpName(path)} |->
                             IF n = TmpName(path) THEN path ELSE m_tmp[n]]
           ELSE UNCHANGED m_tmp
    /\ task' = [task EXCEPT ![i].pc = "fetched"]
    /\ UNCHANGED <<goErr2, m_trustHeaders, m_allowDelta, m_cesiumify, m_fileInfo,
                   m_delta, m_dimVec, m_numPoints, m_bounds, m_schema,
                   m_srsList, m_transformation, m_done, m_pool, m_index,
                   valid, goPc, goErr, m_mutex, poolErrs>>
    /\ UNCHANGED <<buildVars, offsetVars>>

\* add: m_executor.preview(localPath, m_reproj).
TaskPreview(i) ==
    /\ task[i].pc = "fetched"
    /\ LET c == LocalContent(i)
           pv == IF c = None THEN None ELSE World[c[1]].preview
       IN  task' = [task EXCEPT ![i].preview = pv,
                                ![i].pc = IF pv # None THEN "previewed"
                                          ELSE "merged"]
    /\ UNCHANGED <<goErr2, m_trustHeaders, m_allowDelta, m_cesiumify, m_fileInfo,
                   m_delta, m_dimVec, m_numPoints, m_bounds, m_schema,
                   m_srsList, m_transformation, m_done, m_pool, m_index,
                   valid, goPc, goErr, m_mutex, m_tmp, poolErrs>>
    /\ UNCHANGED <<buildVars, offsetVars>>

\* A lock that does not wait for the holder.
TaskLock_noWait(i) ==
    /\ task[i].pc = "previewed"
    /\ m_mutex' = i
    /\ task' = [task EXCEPT ![i].pc = "locked"]
    /\ UNCHANGED <<goErr2, m_trustHeaders, m_allowDelta, m_cesiumify,
                   m_fileInfo, m_delta, m_dimVec, m_numPoints, m_bounds,
                   m_schema, m_srsList, m_transformation, m_done, m_pool,
                   m_index, valid, goPc, goErr, m_tmp, poolErrs>>
    /\ UNCHANGED <<buildVars, offsetVars>>

\* add: std::lock_guard<std::mutex> lock(m_mutex).
TaskLock(i) ==
    /\ task[i].pc = "previewed"
    /\ m_mutex = 0
    /\ m_mutex' = i
    /\ task' = [task EXCEPT ![i].pc = "locked"]
    /\ UNCHANGED <<goErr2, m_trustHeaders, m_allowDelta, m_cesiumify, m_fileInfo,
                   m_delta, m_dimVec, m_numPoints, m_bounds, m_schema,
                   m_srsList, m_transformation, m_done, m_pool, m_index,
                   valid, goPc, goErr, m_tmp, poolErrs>>
    /\ UNCHANGED <<buildVars, offsetVars>>

\* A merge whose failure leaves the mutex locked.
TaskMerge_keepsLockOnThrow(i) ==
    /\ task[i].pc = "locked"
    /\ m_mutex = i
    /\ LET pv == task[i].preview[1]
       IN  IF pv.scale # None /\ InvalidScale(pv.scale[1])
           THEN /\ m_fileInfo' = [m_fileInfo EXCEPT ![i].srs = pv.srs]
                /\ poolErrs' = Append(poolErrs, "InvalidScale")
                /\ task' = [task EXCEPT ![i].pc = "thrown"]
                /\ UNCHANGED <<m_delta, m_dimVec, m_mutex>>
           ELSE /\ m_fileInfo' = [m_fileInfo EXCEPT ![i].srs = pv.srs]
                /\ m_delta' = IF pv.scale # None
                              THEN MergeDelta(m_delta, pv.scale[1], m_allowDelta)
                              ELSE m_delta
                /\ m_dimVec' = MergeDims(m_dimVec, pv.dimNames)
                /\ task' = [task EXCEPT ![i].pc = "merged"]
                /\ m_mutex' = 0
                /\ UNCHANGED poolErrs
    /\ UNCHANGED <<goErr2, m_trustHeaders, m_allowDelta, m_cesiumify,
                   m_numPoints, m_bounds, m_schema, m_srsList,
                   m_transformation, m_done, m_pool, m_index, valid, goPc,
                   goErr, m_tmp>>
    /\ UNCHANGED <<buildVars, offsetVars>>

\* add: the merge under the lock, which the lock_guard releases on the way
\* out, also when the scale check throws.  The pool captures the failure.
TaskMerge(i) ==
    /\ task[i].pc = "locked"
    /\ m_mutex = i
    /\ LET pv == task[i].preview[1]
       IN  IF pv.scale # None /\ InvalidScale(pv.scale[1])
           THEN /\ m_fileInfo' = [m_fileInfo EXCEPT ![i].srs = pv.srs]
                /\ poolErrs' = Append(poolErrs, "InvalidScale")
                /\ task' = [task EXCEPT ![i].pc = "thrown"]
                /\ UNCHANGED <<m_delta, m_dimVec>>
           ELSE /\ m_fileInfo' = [m_fileInfo EXCEPT ![i].srs = pv.srs]
                /\ m_delta' = IF pv.scale # None
                              THEN MergeDelta(m_delta, pv.scale[1], m_allowDelta)
                              ELSE m_delta
                /\ m_dimVec' = MergeDims(m_dimVec, pv.dimNames)
                /\ task' = [task EXCEPT ![i].pc = "merged"]
                /\ UNCHANGED poolErrs
    /\ m_mutex' = 0
    /\ UNCHANGED <<goErr2, m_trustHeaders, m_allowDelta, m_cesiumify, m_numPoints,
                   m_bounds, m_schema, m_srsList, m_transformation, m_done,
                   m_pool, m_index, valid, goPc, goErr, m_tmp>>
    /\ UNCHANGED <<buildVars, offsetVars>>

\* add: the trusted preview is recorded, or the file is scanned.  The task of
\* an HTTP-derived path still has its temp file to remove.
TaskRecord(i) ==
    /\ task[i].pc = "merged"
    /\ m_fileInfo' = Record(m_fileInfo, i, task[i].preview, LocalContent(i),
                            m_trustHeaders)
    /\ task' = [task EXCEPT ![i].pc =
                    IF World[m_fileInfo[i].path].http THEN "recorded"
                    ELSE "done"]
    /\ UNCHANGED <<goErr2, m_trustHeaders, m_allowDelta, m_cesiumify, m_delta,
                   m_dimVec, m_numPoints, m_bounds, m_schema, m_srsList,
                   m_transformation, m_done, m_pool, m_index, valid, goPc,
                   goErr, m_mutex, m_tmp, poolErrs>>
    /\ UNCHANGED <<buildVars, offsetVars>>

\* The HTTP task's last statement: arbiter::fs::remove of the temp file.
TaskRemove(i) ==
    /\ task[i].pc = "recorded"
    /\ m_tmp' = [n \in DOMAIN m_tmp \ {TmpName(m_fileInfo[i].path)} |->
                    m_tmp[n]]
    /\ task' = [task EXCEPT ![i].pc = "done"]
    /\ UNCHANGED <<goErr2, m_trustHeaders, m_allowDelta, m_cesiumify, m_fileInfo,
                   m_delta, m_dimVec, m_numPoints, m_bounds, m_schema,
                   m_srsList, m_transformation, m_done, m_pool, m_index,
                   valid, goPc, goErr, m_mutex, poolErrs>>
    /\ UNCHANGED <<buildVars, offsetVars>>

InferNext ==
    \/ GoStart
    \/ GoSubmit
    \/ GoJoin
    \/ GoAggregate
    \/ GoMakeSchema
    \/ GoCheck
    \/ GoCesium
    \/ GoAgain
    \/ \E i \in Files : TaskStart(i)
    \/ \E i \in Files : TaskPreview(i)
    \/ \E i \in Files : TaskLock(i)
    \/ \E i \in Files : TaskMerge(i)
    \/ \E i \in Files : TaskRecord(i)
    \/ \E i \in Files : TaskRemove(i)

-----------------------------------------------------------------------------
(* Inference::go as getBuilder calls it: the whole run as one computation.  *)
(* The probe tasks touch shared state only in their merge, so a run is      *)
(* determined by the order in which the accepted files merged.              *)

RECURSIVE Orders(_)
Orders(S) ==
    IF S = {} THEN {<< >>}
    ELSE UNION {{<<x>> \o q : q \in Orders(S \ {x})} : x \in S}

\* go's submit loop over the records: the reader's verdict on each path.
RECURSIVE MarkOmitted(_)
MarkOmitted(fileInfo) ==
    IF fileInfo = << >> THEN << >>
    ELSE <<IF World[Head(fileInfo).path].good THEN Head(fileInfo)
           ELSE [Head(fileInfo) EXCEPT !.status = "omitted"]>>
         \o MarkOmitted(Tail(fileInfo))

\* The probe of file i (add), run to its end on the shared state st.
Probe(st, i, trustHeaders, allowDelta) ==
    LET path == st.fileInfo[i].path
        pv == World[path].preview
    IN  IF pv = None
        THEN [st EXCEPT !.fileInfo =
                            Record(st.fileInfo, i, None, Some(path),
                                   trustHeaders)]
        ELSE LET withSrs == [st.fileInfo EXCEPT ![i].srs = pv[1].srs]
             IN  IF pv[1].scale # None /\ InvalidScale(pv[1].scale[1])
                 THEN [st EXCEPT !.fileInfo = withSrs,
                                 !.errs = Append(st.errs, "InvalidScale")]
                 ELSE [st EXCEPT
                         !.fileInfo = Record(withSrs, i, pv, Some(path),
                                             trustHeaders),
                         !.delta = IF pv[1].scale # None
                                   THEN MergeDelta(st.delta, pv[1].scale[1],
                                                   allowDelta)
                                   ELSE st.delta,
                         !.dimVec = MergeDims(st.dimVec, pv[1].dimNames)]

RECURSIVE ProbeAll(_, _, _, _)
ProbeAll(st, order, trustHeaders, allowDelta) ==
    IF order = << >> THEN st
    ELSE ProbeAll(Probe(st, Head(order), trustHeaders, allowDelta),
                  Tail(order), trustHeaders, allowDelta)

Failed(err, fileInfo) ==
    [err |-> err, fileInfo |-> fileInfo, delta |-> None, bounds |-> None,
     numPoints |-> None, schema |-> None, transformation |-> None]

\* aggregate: the delta, if there is one, gets its offset from the bounds.
AggregateDelta(st) ==
    IF st.delta = None THEN None
    ELSE Some(Delta(st.delta[1].scale,
                    AggregateOffset(AggregateBounds(st.fileInfo))))

\* aggregate: sum, bounds, delta and the deltified file bounds.
Aggregate(st) ==
    [fileInfo |-> IF st.delta = None THEN st.fileInfo
                  ELSE DeltifyFiles(st.fileInfo, AggregateDelta(st)[1]),
     delta |-> AggregateDelta(st),
     bounds |-> AggregateBounds(st.fileInfo),
     numPoints |-> AggregateNumPoints(st.fileInfo),
     dimVec |-> st.dimVec]

\* go: what a run that passed the post-conditions holds.
InferDone(ag, schema) ==
    [err |-> "ok", fileInfo |-> ag.fileInfo, delta |-> ag.delta,
     bounds |-> Some(ag.bounds), numPoints |-> Some(ag.numPoints),
     schema |-> Some(schema), transformation |-> None]

\* go, Cesium: the transformation is kept, and the loop's outcome with it.
InferCesium(done, m, r) ==
    [done EXCEPT !.err = r.err, !.fileInfo = r.fileInfo,
                 !.bounds = Some(r.bounds), !.transformation = Some(m)]

InferCesiumify(done, m) ==
    InferCesium(done, m, CesiumLoop(done.fileInfo, 1, m, expander))

\* go: the post-conditions, then the Cesium block if asked for.
InferFinish(done, e, cesiumify) ==
    IF e # "ok" THEN [done EXCEPT !.err = e]
    ELSE IF ~cesiumify THEN done
    ELSE InferCesiumify(done, CalcTransformation(done.bounds[1]))

InferSchema(ag, schema, cesiumify) ==
    InferFinish(InferDone(ag, schema),
                PostCondition(ag.numPoints, schema, ag.bounds), cesiumify)

\* go after the join: a captured failure surfaces, then the valid check.
InferJoined(st, order, cesiumify) ==
    IF st.errs # << >> THEN Failed(st.errs[1], st.fileInfo)
    ELSE IF order = << >> THEN Failed("NoValidInputs", st.fileInfo)
    ELSE InferSchema(Aggregate(st),
                     MakeSchema(st.dimVec, AggregateDelta(st),
                                AggregateBounds(st.fileInfo)),
                     cesiumify)

\* Inference::go on the records fileInfo, the accepted files merging in order.
\* The paths are distinct, as the resolved paths of getBuilder's inputs are:
\* no two tasks share a temp file (see InferGoAgrees).
InferGo(fileInfo, trustHeaders, allowDelta, cesiumify, order) ==
    InferJoined(ProbeAll([fileInfo |-> MarkOmitted(fileInfo),
                          delta |-> None, dimVec |-> << >>,
                          errs |-> << >>],
                         order, trustHeaders, allowDelta),
                order, cesiumify)

-----------------------------------------------------------------------------
(* JSON.  A Json::Value object is a function from its member names to       *)
(* optional values: a member may be present and null.                       *)

\* Json::Value::isMember: the key is present, whatever its value.
IsMember(json, k) == k \in DOMAIN json

\* const operator[]: null for a key that is not a member.
Get(json, k) == IF k \in DOMAIN json THEN json[k] ELSE None

\* json[k] = v.
Put(json, k, v) ==
    [x \in DOMAIN json \cup {k} |-> IF x = k THEN v ELSE json[x]]

AsBool(v) == v # None /\ v[1]
AsUInt64(v) == IF v = None THEN 0 ELSE v[1]

\* ConfigParser::defaults.
Defaults ==
    [k \in {"input", "output", "tmp", "threads", "trustHeaders", "prefixIds",
            "pointsPerChunk", "numPointsHint", "bounds", "schema", "compress",
            "nullDepth", "baseDepth"} |->
        CASE k = "tmp" -> Some("tmp")
          [] k = "threads" -> Some(8)
          [] k = "trustHeaders" -> Some(TRUE)
          [] k = "prefixIds" -> Some(FALSE)
          [] k = "pointsPerChunk" -> Some(262144)
          [] k = "compress" -> Some(TRUE)
          [] k = "nullDepth" -> Some(7)
          [] k = "baseDepth" -> Some(10)
          [] OTHER -> None]

\* Defaults that overwrite what json holds.
ApplyDefaults_overwrites(json) ==
    [k \in DOMAIN json \cup DOMAIN Defaults |->
        IF k \in DOMAIN Defaults THEN Defaults[k] ELSE json[k]]

\* getBuilder: a default is filled in for every key json is not a member of.
ApplyDefaults(json) ==
    [k \in DOMAIN json \cup DOMAIN Defaults |->
        IF IsMember(json, k) THEN json[k] ELSE Defaults[k]]

-----------------------------------------------------------------------------
(* The world getBuilder runs in: what the blob endpoint resolves and holds. *)

\* arbiter.resolve(directorify(token)): the files a token of input expands to.
Resolve(token) ==
    CASE token = "one" -> <<"a.laz">>
      [] token = "many" -> <<"a.laz", "e.xyz", "bad.txt">>
      [] token = "pid" -> <<"http://h/c.laz">>
      [] token = "mix" -> <<"z.laz", "a.laz">>
      [] token \in Paths -> <<token>>
      [] OTHER -> << >>

\* arbiter::Arbiter::getExtension.
GetExtension(token) ==
    IF token \in {"x.entwine-inference", "y.entwine-inference"}
    THEN "entwine-inference" ELSE "laz"

\* The inference files the endpoint holds, as Inference::toJson wrote them:
\* x from a run over b.laz with a delta and a reprojection, y from a run over
\* a.laz without either.
InferenceFile(path) ==
    IF path = "x.entwine-inference"
    THEN [k \in {"fileInfo", "schema", "bounds", "numPoints", "reprojection",
                 "scale", "offset"} |->
            CASE k = "fileInfo" ->
                    Some(<<[path |-> "b.laz", status |-> "outstanding",
                            numPoints |-> 3,
                            bounds |-> Some(Bounds(<<-7, -20, -3>>,
                                                   <<-2, 20, 3>>)),
                            srs |-> "EPSG:26915"]>>)
              [] k = "schema" ->
                    Some(<<DimInfo("X", "signed", 4), DimInfo("Y", "signed", 4),
                           DimInfo("Z", "signed", 4),
                           DimInfo("Intensity", "unsigned", 2)>>)
              [] k = "bounds" ->
                    Some(Bounds(<<6, -20, -6>>, <<16, 20, 6>>))
              [] k = "numPoints" -> Some(3)
              [] k = "reprojection" ->
                    Some([in |-> "EPSG:4326", out |-> "EPSG:26915"])
              [] k = "scale" -> Some(<<2, 1, 2>>)
              [] k = "offset" -> Some(<<20, 0, 0>>)]
    ELSE [k \in {"fileInfo", "schema", "bounds", "numPoints"} |->
            CASE k = "fileInfo" ->
                    Some(<<[path |-> "a.laz", status |-> "outstanding",
                            numPoints |-> 2,
                            bounds |-> Some(Bounds(<<0, -10, -4>>,
                                                   <<10, 10, 4>>)),
                            srs |-> "EPSG:26915"]>>)
              [] k = "schema" ->
                    Some(<<DimInfo("X", "floating", 8),
                           DimInfo("Y", "floating", 8),
                           DimInfo("Z", "floating", 8)>>)
              [] k = "bounds" ->
                    Some(Bounds(<<0, -10, -4>>, <<10, 10, 4>>))
              [] k = "numPoints" -> Some(2)]

-----------------------------------------------------------------------------
(* ConfigParser *)

\* The value of "input": [kind |-> "string", v |-> <<a token>>],
\* [kind |-> "array", v |-> strings] or, taken from an inference file,
\* [kind |-> "infos", v |-> file records].
IsArray(input) == input # None /\ input[1].kind \in {"array", "infos"}

RECURSIVE ResolveAll(_)
ResolveAll(tokens) ==
    IF tokens = << >> THEN << >>
    ELSE Resolve(Head(tokens)) \o ResolveAll(Tail(tokens))

\* Delta::existsIn.
ExistsIn(json) == IsMember(json, "scale") \/ IsMember(json, "offset")

\* Delta(json): scale defaults to 1 and offset to 0 on every axis.
DeltaFromJson(json) ==
    Delta(IF Get(json, "scale") = None THEN <<1, 1, 1>>
          ELSE Get(json, "scale")[1],
          IF Get(json, "offset") = None THEN <<0, 0, 0>>
          ELSE Get(json, "offset")[1])

\* normalizeInput, the branch of an inference file: what it adopts from it.
AdoptInput(json, inference) ==
    Put(json, "input",
        IF Get(inference, "fileInfo") = None THEN None
        ELSE Some([kind |-> "infos", v |-> Get(inference, "fileInfo")[1]]))

\* if (!json.isMember(k)) json[k] = inference[from].
AdoptKey(json, k, inference, from) ==
    IF ~IsMember(json, k) THEN Put(json, k, Get(inference, from)) ELSE json

\* if (inference.isMember("reprojection")) json[...] = inference[...].
AdoptReprojection(json, inference) ==
    IF IsMember(inference, "reprojection")
    THEN Put(json, "reprojection", inference["reprojection"]) ELSE json

\* if (Delta::existsIn(inference)) { if (!json.isMember(k)) ... }.
AdoptDeltaKey(json, k, inference) ==
    IF ExistsIn(inference) /\ ~IsMember(json, k)
    THEN Put(json, k, Get(inference, k)) ELSE json

AdoptInference(json, inference) ==
    AdoptDeltaKey(
        AdoptDeltaKey(
            AdoptReprojection(
                AdoptKey(
                    AdoptKey(
                        AdoptKey(AdoptInput(json, inference),
                                 "schema", inference, "schema"),
                        "bounds", inference, "bounds"),
                    "numPointsHint", inference, "numPoints"),
                inference),
            "scale", inference),
        "offset", inference)

\* normalizeInput.
NormalizeInput(json) ==
    LET input == Get(json, "input")
        isString == input # None /\ input[1].kind = "string"
        extension == IF isString THEN GetExtension(input[1].v[1]) ELSE ""
    IN  IF extension # "entwine-inference"
        THEN LET tokens == IF IsArray(input) THEN input[1].v
                           ELSE IF isString THEN input[1].v
                           ELSE <<"">>
             IN  Put(json, "input",
                     Some([kind |-> "array", v |-> ResolveAll(tokens)]))
        ELSE AdoptInference(json, InferenceFile(input[1].v[1]))

\* extract<FileInfo>(json["input"]).
RECURSIVE FileInfos(_)
FileInfos(paths) ==
    IF paths = << >> THEN << >>
    ELSE <<FileInfo(Head(paths))>> \o FileInfos(Tail(paths))

Extract(input) ==
    IF input = None THEN << >>
    ELSE IF input[1].kind = "infos" THEN input[1].v
    ELSE FileInfos(input[1].v)

\* A marker name that ignores the subset.
MarkerName_ignoresSubset(config) == "entwine"

\* tryGetExisting: the name of the marker looked for at the output endpoint.
MarkerName(config) ==
    "entwine" \o (IF IsMember(config, "subset")
                  THEN "-" \o ToString(config["subset"][1].id) ELSE "")

\* tryGetExisting: an existing build was found (a builder is returned).
TryGetExisting(config, present) == MarkerName(config) \in present

\* Prerequisites that are never enough.
NeedsInference_always(optBounds, optSchema, numPointsHint) == TRUE

\* getBuilder: the three prerequisites; inference runs if one is missing.
NeedsInference(optBounds, optSchema, numPointsHint) ==
    optBounds = None \/ optSchema = None \/ numPointsHint = 0

RECURSIVE MaxNumPoints(_)
MaxNumPoints(fileInfo) ==
    IF fileInfo = << >> THEN 0
    ELSE Max(Head(fileInfo).numPoints, MaxNumPoints(Tail(fileInfo)))

\* A PointId size whose comparison is strict.
PointIdSize_strict(fileInfo) ==
    IF MaxNumPoints(fileInfo) < UInt32Max THEN 4 ELSE 8

\* getBuilder: the size of PointId.
PointIdSize(fileInfo) == IF MaxNumPoints(fileInfo) <= UInt32Max THEN 4 ELSE 8

\* getBuilder: the size of OriginId.
OriginSize(fileInfo) == IF Len(fileInfo) <= UInt32Max THEN 4 ELSE 8

\* getBuilder: the schema built from the inferred one.
SynthesizeSchema(dims, optDelta, boundsConforming, fileInfo) ==
    (IF optDelta # None
     THEN SchemaDeltify(Cubeify(boundsConforming, optDelta), dims)
     ELSE dims)
    \o <<DimInfo("PointId", "unsigned", PointIdSize(fileInfo)),
         DimInfo("OriginId", "unsigned", OriginSize(fileInfo))>>

\* getBuilder: the delta after inference: the inferred scale and offset are
\* taken for the keys json is not a member of.
MergeInferredDelta(optDelta, json, absolute, inferredDelta) ==
    IF ~absolute /\ inferredDelta # None
    THEN LET base == IF optDelta = None
                     THEN Delta(<<1, 1, 1>>, <<0, 0, 0>>) ELSE optDelta[1]
         IN  Some(Delta(IF ~IsMember(json, "scale")
                        THEN inferredDelta[1].scale ELSE base.scale,
                        IF ~IsMember(json, "offset")
                        THEN inferredDelta[1].offset ELSE base.offset))
    ELSE optDelta

\* The smallest d with 4^d >= n, and the largest d with 4^d <= n.
RECURSIVE Log4Ceil(_)
Log4Ceil(n) == IF n <= 1 THEN 0 ELSE 1 + Log4Ceil((n + 3) \div 4)
RECURSIVE Log4Floor(_)
Log4Floor(n) == IF n < 4 THEN 0 ELSE 1 + Log4Floor(n \div 4)

\* Subset::minimumNullDepth and Subset::minimumBaseDepth.
MinimumNullDepth(subset) == Log4Ceil(subset.of)
MinimumBaseDepth(subset, pointsPerChunk) ==
    Log4Floor(pointsPerChunk) + Log4Ceil(subset.of)

\* An accommodation that raises baseDepth without recording what it was.
MaybeAccommodateSubset_noBump(json) ==
    IF ~IsMember(json, "subset") THEN json
    ELSE Put(Put(json, "nullDepth",
                 Some(Max(AsUInt64(Get(json, "nullDepth")),
                          MinimumNullDepth(json["subset"][1])))),
             "baseDepth",
             Some(Max(AsUInt64(Get(json, "baseDepth")),
                      MinimumBaseDepth(json["subset"][1],
                          AsUInt64(Get(json, "pointsPerChunk"))))))

\* maybeAccommodateSubset: json with the depths raised to the subset's minima.
MaybeAccommodateSubset(json) ==
    IF ~IsMember(json, "subset") THEN json
    ELSE LET subset == json["subset"][1]
             configNullDepth == AsUInt64(Get(json, "nullDepth"))
             minimumNullDepth == MinimumNullDepth(subset)
             j1 == IF configNullDepth < minimumNullDepth
                   THEN Put(json, "nullDepth", Some(minimumNullDepth))
                   ELSE json
             configBaseDepth == AsUInt64(Get(j1, "baseDepth"))
             ppc == AsUInt64(Get(j1, "pointsPerChunk"))
             minimumBaseDepth == MinimumBaseDepth(subset, ppc)
         IN  IF configBaseDepth < minimumBaseDepth
             THEN Put(Put(j1, "baseDepth", Some(minimumBaseDepth)),
                      "bumpDepth", Some(configBaseDepth))
             ELSE j1

\* getCesiumSettings(json["formats"]) is set.
IsCesium(json) ==
    Get(json, "formats") # None /\ "cesium" \in Get(json, "formats")[1]

\* absolute as configured, not forced by Cesium.
IsAbsolute_ignoresCesium(json) == AsBool(Get(json, "absolute"))

\* absolute, after the Cesium block.
IsAbsolute(json) == AsBool(Get(json, "absolute")) \/ IsCesium(json)

\* if (cesiumSettings) json["reprojection"]["out"] = "EPSG:4978".
ForceCesium(json) ==
    IF IsCesium(json)
    THEN Put(json, "reprojection",
             Some([in |-> IF Get(json, "reprojection") = None THEN ""
                          ELSE Get(json, "reprojection")[1].in,
                   out |-> "EPSG:4978"]))
    ELSE json

\* if (!absolute && Delta::existsIn(json)) delta = makeUnique<Delta>(json).
InitialDelta(json) ==
    IF ~IsAbsolute(json) /\ ExistsIn(json) THEN Some(DeltaFromJson(json))
    ELSE None

\* The Metadata the builder is made of, and the Structure's json.
Assemble(json, fileInfo, delta, bounds, schema, hint, transformation) ==
    [kind |-> "new",
     bounds |-> bounds,
     schema |-> schema,
     numPointsHint |-> hint,
     manifest |-> fileInfo,
     trustHeaders |-> AsBool(Get(json, "trustHeaders")),
     compress |-> AsBool(Get(json, "compress")),
     reprojection |-> Get(json, "reprojection"),
     subset |-> Get(json, "subset"),
     delta |-> delta,
     transformation |-> transformation,
     cesium |-> IsCesium(json),
     structure |-> Put(MaybeAccommodateSubset(json), "numPointsHint",
                       Some(hint))]

\* getBuilder when the three prerequisites are in json.
BuildAsConfigured(json, fileInfo) ==
    [inferred |-> None,
     builder |-> Some(Assemble(json, fileInfo, InitialDelta(json),
                               Get(json, "bounds")[1], Get(json, "schema")[1],
                               AsUInt64(Get(json, "numPointsHint")), None)),
     err |-> ""]

\* getBuilder after a successful inference, its delta and bounds settled.
BuildInferred(json, inf, delta, bounds) ==
    [inferred |-> Some(inf),
     builder |-> Some(Assemble(json, inf.fileInfo, delta, bounds,
                     IF Get(json, "schema") = None
                     THEN SynthesizeSchema(inf.schema[1], delta, bounds,
                                           inf.fileInfo)
                     ELSE Get(json, "schema")[1],
                     IF AsUInt64(Get(json, "numPointsHint")) = 0
                     THEN inf.numPoints[1]
                     ELSE AsUInt64(Get(json, "numPointsHint")),
                     inf.transformation)),
     err |-> ""]

\* getBuilder's inference block: a failed run ends the call.
BuildFromInference(json, inf) ==
    IF inf.err # "ok"
    THEN [inferred |-> Some(inf), builder |-> None, err |-> inf.err]
    ELSE BuildInferred(json, inf,
                       MergeInferredDelta(InitialDelta(json), json,
                                          IsAbsolute(json), inf.delta),
                       IF Get(json, "bounds") = None THEN inf.bounds[1]
                       ELSE Get(json, "bounds")[1])

\* getBuilder: inference runs if a prerequisite is missing.
NewBuildFrom(json, fileInfo, order) ==
    IF NeedsInference(Get(json, "bounds"), Get(json, "schema"),
                      AsUInt64(Get(json, "numPointsHint")))
    THEN BuildFromInference(json,
             InferGo(fileInfo, AsBool(Get(json, "trustHeaders")),
                     ~IsAbsolute(json), IsCesium(json), order))
    ELSE BuildAsConfigured(json, fileInfo)

\* getBuilder from the statement after tryGetExisting to its return: the
\* Inference instance it ran (if any), and the builder or the error.
NewBuild(json0, fileInfo0, order) ==
    NewBuildFrom(ForceCesium(json0), fileInfo0, order)

\* The keys a user may set besides input and output, each with the value the
\* model gives it.
OptionalKeys ==
    {"force", "absolute", "formats", "trustHeaders", "bounds", "schema",
     "numPointsHint", "scale", "offset", "subset", "reprojection",
     "nullDepth", "baseDepth"}

UserValue(k) ==
    CASE k = "force" -> Some(TRUE)
      [] k = "absolute" -> Some(TRUE)
      [] k = "formats" -> Some({"cesium"})
      [] k = "trustHeaders" -> Some(FALSE)
      [] k = "bounds" -> Some(Bounds(<<0, -40, -40>>, <<200, 40, 40>>))
      [] k = "schema" ->
            Some(<<DimInfo("X", "floating", 8), DimInfo("Y", "floating", 8),
                   DimInfo("Z", "floating", 8),
                   DimInfo("PointId", "unsigned", 8),
                   DimInfo("OriginId", "unsigned", 4)>>)
      [] k = "numPointsHint" -> Some(7)     \* or 0, see UserHints
      [] k = "scale" -> Some(<<4, 4, 4>>)
      [] k = "offset" -> Some(<<30, 0, 0>>)
      [] k = "subset" -> Some([id |-> 1, of |-> 16])
      [] k = "reprojection" -> Some([in |-> "", out |-> "EPSG:3857"])
      [] k = "nullDepth" -> Some(1)
      [] k = "baseDepth" -> Some(11)
      [] k = "output" -> Some("out")

UserInputs ==
    {[kind |-> "string", v |-> <<t>>] :
        t \in {"one", "many", "pid", "mix", "x.entwine-inference",
               "y.entwine-inference"}}
    \cup {[kind |-> "array", v |-> <<"a.laz", "b.laz">>]}

\* The values a user gives numPointsHint: a count, or 0.
UserHints == {0, 7}

BuildInit ==
    /\ \E K \in SUBSET OptionalKeys : \E I \in SUBSET {"input"} :
          /\ Cardinality(K) <= MaxUserKeys
          /\ \E in \in UserInputs : \E hint \in UserHints :
                user = [k \in K \cup I \cup {"output"} |->
                           IF k = "input" THEN Some(in)
                           ELSE IF k = "numPointsHint" THEN Some(hint)
                           ELSE UserValue(k)]
    /\ markers \in {{}, {"entwine"}, {"entwine-1"}}
    /\ bPc = "ready"
    /\ normalized = None
    /\ probed = FALSE
    /\ inferred = None
    /\ builder = None
    /\ bErr = ""

\* getBuilder returns r's builder or throws r's error.
Returns(r) ==
    /\ inferred' = r.inferred
    /\ builder' = r.builder
    /\ bErr' = r.err

\* The records the reader accepts.
GoodFiles(fileInfo) ==
    {i \in 1..Len(fileInfo) : World[fileInfo[i].path].good}

\* getBuilder from the statement after normalizeInput.
GetBuilderOn(json) ==
    /\ normalized' = Some(json)
    /\ probed' = ~AsBool(Get(json, "force"))
    /\ IF ~AsBool(Get(json, "force")) /\ TryGetExisting(json, markers)
       THEN /\ builder' =
                 Some([kind |-> "continued",
                       appended |-> IF IsArray(Get(json, "input"))
                                    THEN Extract(Get(json, "input"))
                                    ELSE << >>])
            /\ inferred' = None
            /\ bErr' = ""
       ELSE \E order \in Orders(GoodFiles(Extract(Get(json, "input")))) :
               Returns(NewBuild(json, Extract(Get(json, "input")), order))

\* getBuilder.
GetBuilder ==
    /\ bPc = "ready"
    /\ GetBuilderOn(NormalizeInput(ApplyDefaults(user)))
    /\ bPc' = "done"
    /\ UNCHANGED <<user, markers>>
    /\ UNCHANGED <<inferVars, offsetVars>>

-----------------------------------------------------------------------------
(* The offset rounding of aggregate on its own: one axis, one midpoint. *)

OffsetInit ==
    /\ offMid2 \in -MaxMid2..MaxMid2
    /\ offset = None

ChooseOffset ==
    /\ offset = None
    /\ offset' = Some(OffsetAxis(offMid2))
    /\ UNCHANGED offMid2
    /\ UNCHANGED <<inferVars, buildVars>>

-----------------------------------------------------------------------------
(* The specifications.  Each one leaves the state of the others at rest. *)

vars == <<inferVars, buildVars, offsetVars>>

InferIdle ==
    /\ m_fileInfo = << >>
    /\ m_trustHeaders = FALSE
    /\ m_allowDelta = FALSE
    /\ m_cesiumify = FALSE
    /\ m_delta = None
    /\ m_dimVec = << >>
    /\ m_numPoints = None
    /\ m_bounds = None
    /\ m_schema = None
    /\ m_srsList = << >>
    /\ m_transformation = None
    /\ m_done = FALSE
    /\ m_pool = FALSE
    /\ m_index = 1
    /\ valid = FALSE
    /\ goPc = "idle"
    /\ goErr = ""
    /\ goErr2 = ""
    /\ task = << >>
    /\ m_mutex = 0
    /\ m_tmp = << >>
    /\ poolErrs = << >>

BuildIdle ==
    /\ user = << >>
    /\ markers = {}
    /\ bPc = "idle"
    /\ normalized = None
    /\ probed = FALSE
    /\ inferred = None
    /\ builder = None
    /\ bErr = ""

OffsetIdle ==
    /\ offMid2 = 0
    /\ offset = Some(0)

Init == InferInit /\ BuildIdle /\ OffsetIdle
Next == InferNext
Spec == Init /\ [][Next]_vars

\* The steps of the probe task of file i at the merge: taking the mutex, and
\* the merge that ends with its release.
TaskEnter(i) == i \in Files /\ TaskLock(i)
TaskLeave(i) == i \in Files /\ TaskMerge(i)

\* The paths of the runs whose progress is checked: a file that declares a
\* scale, one whose scale has a zero component, and an HTTP-derived one.
LivePaths == {"b.laz", "z.laz", "http://h/c.laz"}

InitLive == InferInitOver(LivePaths) /\ BuildIdle /\ OffsetIdle

\* Spec with the pool's workers scheduled: a task that can take the mutex
\* eventually takes it, and a task inside the merge eventually runs it.
SpecLive ==
    /\ InitLive /\ [][Next]_vars
    /\ \A i \in 1..MaxFiles : WF_vars(TaskEnter(i)) /\ WF_vars(TaskLeave(i))

\* The paths of the runs whose temp files are checked: the HTTP-derived ones.
TmpPaths == {"http://h/c.laz", "http://h/d/e.laz", "http://h/d-e.laz"}

InitTmp == InferInitOver(TmpPaths) /\ BuildIdle /\ OffsetIdle

\* Inference::go over HTTP-derived paths only.
SpecTmp == InitTmp /\ [][Next]_vars

InitBuild == BuildInit /\ InferIdle /\ OffsetIdle
NextBuild == GetBuilder
SpecBuild == InitBuild /\ [][NextBuild]_vars

InitOffset == OffsetInit /\ InferIdle /\ BuildIdle
NextOffset == ChooseOffset
SpecOffset == InitOffset /\ [][NextOffset]_vars

-----------------------------------------------------------------------------
(* Properties of Inference::go (specification Spec). *)

\* The files whose probe recorded a result: update sets numPoints and bounds
\* together, and a record starts without bounds.
Recorded == {i \in Files : m_fileInfo[i].bounds # None}

RECURSIVE SumNumPoints(_)
SumNumPoints(S) ==
    IF S = {} THEN 0
    ELSE LET i == CHOOSE j \in S : TRUE
         IN  m_fileInfo[i].numPoints + SumNumPoints(S \ {i})

\* C1: once go has completed, the global numPoints is the sum of numPoints
\* over the files whose probe recorded a result, and every other file (omitted
\* by the reader, or probed without a result) holds and contributes 0.
C1_NumPointsIsSumOfRecorded ==
    m_done =>
        /\ m_numPoints = Some(SumNumPoints(Recorded))
        /\ \A i \in Files \ Recorded : m_fileInfo[i].numPoints = 0

\* C1's case: a completed run over two files, one that recorded points and
\* one that recorded nothing.
C1_Witness ==
    /\ m_done
    /\ Len(m_fileInfo) = 2
    /\ \E i \in Recorded : m_fileInfo[i].numPoints > 0
    /\ Files \ Recorded # {}

\* C2 as claimed: once go has completed, every file with recorded bounds has
\* them inside nativeBounds() and has numPoints at most the global numPoints,
\* in every mode.
C2_FileInsideNativeBounds ==
    m_done =>
        \A i \in Recorded :
            /\ Inside(m_fileInfo[i].bounds[1], m_bounds[1])
            /\ m_fileInfo[i].numPoints <= m_numPoints[1]

\* C2 amended: without a delta, and with the Cesium transform, the recorded
\* bounds lie inside nativeBounds(); with an active delta and no Cesium
\* transform the recorded bounds are deltified and lie inside the deltified
\* nativeBounds(), while nativeBounds() itself stays native.  numPoints is at
\* most the global numPoints in every mode.
C2_FileInsideGlobalBounds ==
    m_done =>
        \A i \in Recorded :
            /\ m_fileInfo[i].numPoints <= m_numPoints[1]
            /\ IF m_delta # None /\ ~m_cesiumify
               THEN Inside(m_fileInfo[i].bounds[1],
                           Deltify(m_bounds[1], m_delta[1]))
               ELSE Inside(m_fileInfo[i].bounds[1], m_bounds[1])

\* C2's case: a completed run with an active delta in which a file's
\* deltified bounds are not inside the native global bounds.
C2_Witness ==
    /\ m_done
    /\ m_delta # None
    /\ \E i \in Recorded : ~Inside(m_fileInfo[i].bounds[1], m_bounds[1])

\* No two records of the run name the same path.
DistinctPaths ==
    \A i, j \in Files : m_fileInfo[i].path = m_fileInfo[j].path => i = j

\* No two records of the run share a temp file name.
DistinctTmpNames ==
    \A i, j \in Files :
        TmpName(m_fileInfo[i].path) = TmpName(m_fileInfo[j].path) => i = j

\* InferGo, the run as one computation, agrees with the run step by step:
\* when go has ended over paths with distinct temp file names, some merge
\* order gives InferGo the same outcome.
InferGoAgrees ==
    (DistinctTmpNames /\ goPc \in {"done", "failed"}) =>
        \E order \in Orders(GoodFiles(m_fileInfo)) :
            LET r == InferGo(FileInfos([i \in Files |-> m_fileInfo[i].path]),
                             m_trustHeaders, m_allowDelta, m_cesiumify, order)
            IN  IF goPc = "failed" THEN r.err = goErr
                ELSE /\ r.err = "ok"
                     /\ r.fileInfo = m_fileInfo
                     /\ r.delta = m_delta
                     /\ r.bounds = m_bounds
                     /\ r.numPoints = m_numPoints
                     /\ r.schema = m_schema
                     /\ r.transformation = m_transformation

\* Some probe obtained a preview that declares a scale with a zero component.
ZeroScaleSeen ==
    \E i \in Files :
        /\ task[i].preview # None
        /\ task[i].preview[1].scale # None
        /\ \E a \in 1..3 : task[i].preview[1].scale[1][a] = 0

\* C7: if a probe obtained a preview whose scale has a zero component, go
\* never gets past join, and when it has stopped it has failed with
\* InvalidScale: nothing is aggregated and go is not done.
C7_ZeroScaleFailsRun ==
    ZeroScaleSeen =>
        /\ goPc \in {"submit", "failed"}
        /\ ~m_done
        /\ m_numPoints = None /\ m_bounds = None /\ m_schema = None
        /\ goPc = "failed" => goErr = "InvalidScale"
        /\ ~ENABLED InferNext => goPc = "failed"

\* C7's case: go has failed with InvalidScale although another file of the
\* run was probed and recorded.
C7_Witness ==
    /\ goPc = "failed"
    /\ goErr = "InvalidScale"
    /\ ZeroScaleSeen
    /\ Recorded # {}

-----------------------------------------------------------------------------
(* Properties of ConfigParser::getBuilder (specification SpecBuild). *)

\* getBuilder has returned or thrown.
Done == bPc = "done"

\* getBuilder returned a builder for a new build: a descriptor was emitted.
Emitted == Done /\ builder # None /\ builder[1].kind = "new"

UserHas(k) == k \in DOMAIN user

\* The user asked for absolute coordinates, directly or through Cesium.
UserAbsolute ==
    \/ UserHas("absolute") /\ user["absolute"][1]
    \/ UserHas("formats") /\ "cesium" \in user["formats"][1]

\* The user's input is a single path with the extension entwine-inference.
InferenceInput ==
    /\ UserHas("input")
    /\ user["input"][1].kind = "string"
    /\ user["input"][1].v[1] \in {"x.entwine-inference", "y.entwine-inference"}

\* The inference file the user's input names.
TheFile == InferenceFile(user["input"][1].v[1])

\* C3 as claimed: in an emitted descriptor each of bounds, schema,
\* numPointsHint, scale and offset is the user's value when the user config
\* supplies it, else the inferred value when inference ran; and no default
\* replaces a key of the user config.
C3_UserOverInferredOverDefault ==
    /\ Done =>
          \A k \in (DOMAIN user \cap DOMAIN Defaults) \ {"input"} :
              normalized[1][k] = user[k]
    /\ Emitted =>
        LET b == builder[1]
        IN  /\ UserHas("bounds") => b.bounds = user["bounds"][1]
            /\ UserHas("schema") => b.schema = user["schema"][1]
            /\ UserHas("numPointsHint") =>
                    b.numPointsHint = user["numPointsHint"][1]
            /\ UserHas("scale") =>
                    b.delta # None /\ b.delta[1].scale = user["scale"][1]
            /\ UserHas("offset") =>
                    b.delta # None /\ b.delta[1].offset = user["offset"][1]
            /\ inferred # None =>
                  /\ ~UserHas("bounds") => b.bounds = inferred[1].bounds[1]
                  /\ ~UserHas("numPointsHint") =>
                        b.numPointsHint = inferred[1].numPoints[1]
                  /\ ~UserHas("schema") =>
                        DimNames(b.schema) =
                            DimNames(inferred[1].schema[1])
                                \o <<"PointId", "OriginId">>
                  /\ (~UserHas("scale") /\ inferred[1].delta # None) =>
                        /\ b.delta # None
                        /\ b.delta[1].scale = inferred[1].delta[1].scale
                  /\ (~UserHas("offset") /\ inferred[1].delta # None) =>
                        /\ b.delta # None
                        /\ b.delta[1].offset = inferred[1].delta[1].offset

\* C3 amended: bounds and schema are the user's when supplied, else the
\* inferred ones.  numPointsHint is the user's when supplied and nonzero; a
\* hint of 0 counts as missing and the inferred count is taken.  Scale and
\* offset exist only when the build is not absolute (neither absolute nor a
\* Cesium output is configured): then each is the user's when supplied, else
\* the one adopted from an inference file, else the inferred one when the
\* inference found a scale; an absolute build carries no scale or offset
\* even if the user supplied them.  No default replaces a key of the user
\* config.
C3_UserOverInferredUnlessAbsolute ==
    /\ Done =>
          \A k \in (DOMAIN user \cap DOMAIN Defaults) \ {"input"} :
              normalized[1][k] = user[k]
    /\ Emitted =>
        LET b == builder[1]
            json == normalized[1]
        IN  /\ UserHas("bounds") => b.bounds = user["bounds"][1]
            /\ UserHas("schema") => b.schema = user["schema"][1]
            /\ (UserHas("numPointsHint") /\ user["numPointsHint"][1] # 0) =>
                    b.numPointsHint = user["numPointsHint"][1]
            /\ (UserHas("numPointsHint") /\ user["numPointsHint"][1] = 0) =>
                    /\ inferred # None
                    /\ b.numPointsHint = inferred[1].numPoints[1]
            /\ UserAbsolute => b.delta = None
            /\ \A k \in {"scale", "offset"} :
                  /\ (~UserAbsolute /\ UserHas(k)) =>
                        b.delta # None /\ b.delta[1][k] = user[k][1]
                  /\ (~UserAbsolute /\ ~UserHas(k) /\ IsMember(json, k)) =>
                        b.delta # None /\ b.delta[1][k] = json[k][1]
                  /\ (~UserAbsolute /\ ~IsMember(json, k) /\ inferred # None
                        /\ inferred[1].delta # None) =>
                        /\ b.delta # None
                        /\ b.delta[1][k] = inferred[1].delta[1][k]
            /\ inferred # None =>
                  /\ ~UserHas("bounds") => b.bounds = inferred[1].bounds[1]
                  /\ ~UserHas("numPointsHint") =>
                        b.numPointsHint = inferred[1].numPoints[1]
                  /\ ~UserHas("schema") =>
                        DimNames(b.schema) =
                            DimNames(inferred[1].schema[1])
                                \o <<"PointId", "OriginId">>

\* C3's case: inference ran because bounds and schema were missing and found
\* a scale, and the descriptor carries the user's scale, the inferred offset
\* and the inferred bounds.
C3_Witness ==
    /\ Emitted
    /\ UserHas("scale") /\ ~UserHas("offset") /\ ~UserHas("bounds")
    /\ inferred # None
    /\ inferred[1].delta # None
    /\ inferred[1].delta[1].scale # user["scale"][1]
    /\ builder[1].delta # None
    /\ builder[1].delta[1].scale = user["scale"][1]
    /\ builder[1].delta[1].offset = inferred[1].delta[1].offset
    /\ builder[1].delta[1].offset # <<0, 0, 0>>

\* C4 as claimed: with an inference file as input, the normalized
\* configuration holds, for schema, bounds, numPointsHint, reprojection,
\* scale and offset, the user's value if the user supplied the key and else
\* the file's value, and input is the file's fileInfo.
C4_InferenceFileAdopted ==
    (Done /\ InferenceInput) =>
        LET json == normalized[1]
        IN  /\ \A k \in {"schema", "bounds", "reprojection", "scale",
                         "offset"} :
                  Get(json, k) = IF UserHas(k) THEN user[k]
                                 ELSE Get(TheFile, k)
            /\ Get(json, "numPointsHint") =
                  IF UserHas("numPointsHint") THEN user["numPointsHint"]
                  ELSE Get(TheFile, "numPoints")
            /\ Get(json, "input") =
                  Some([kind |-> "infos", v |-> TheFile["fileInfo"][1]])

\* C5 as claimed: with an inference file as input that holds a schema,
\* bounds and a nonzero numPoints, and no bounds, schema or numPointsHint from
\* the user, no Inference is run and an emitted descriptor has the file's
\* bounds, schema and numPoints.
C5_InferenceFileSkipsInference ==
    (/\ Done
     /\ InferenceInput
     /\ ~UserHas("bounds") /\ ~UserHas("schema") /\ ~UserHas("numPointsHint")
     /\ Get(TheFile, "schema") # None
     /\ Get(TheFile, "bounds") # None
     /\ AsUInt64(Get(TheFile, "numPoints")) # 0) =>
        /\ inferred = None
        /\ Emitted =>
              /\ builder[1].bounds = TheFile["bounds"][1]
              /\ builder[1].schema = TheFile["schema"][1]
              /\ builder[1].numPointsHint = TheFile["numPoints"][1]

\* The marker of the user's configuration is at the output endpoint.
MarkerPresent ==
    IF UserHas("subset")
    THEN ("entwine-" \o ToString(user["subset"][1].id)) \in markers
    ELSE "entwine" \in markers

UserForce == UserHas("force") /\ user["force"][1]

\* The paths the user's input resolves to.
ResolvedPaths ==
    IF ~UserHas("input") THEN << >>
    ELSE IF InferenceInput
    THEN [i \in 1..Len(TheFile["fileInfo"][1]) |->
             TheFile["fileInfo"][1][i].path]
    ELSE ResolveAll(user["input"][1].v)

\* C6: when force is false and the marker (entwine, or entwine-<id> with a
\* subset of that id) is at the output endpoint, getBuilder returns a
\* continuation builder, runs no inference, and appends the resolved input
\* paths; when force is true the endpoint is not probed and whatever is
\* returned is a new build.
C6_ContinueUnlessForced ==
    Done =>
        /\ (~UserForce /\ MarkerPresent) =>
              /\ probed
              /\ builder # None /\ builder[1].kind = "continued"
              /\ inferred = None
              /\ bErr = ""
              /\ [i \in 1..Len(builder[1].appended) |->
                     builder[1].appended[i].path] = ResolvedPaths
        /\ UserForce =>
              /\ ~probed
              /\ builder # None => builder[1].kind = "new"
              /\ builder = None => bErr # ""

\* C6's case: a subset build is continued from its marker entwine-1, and
\* input paths are appended to it.
C6_Witness ==
    /\ Done
    /\ UserHas("subset")
    /\ markers = {"entwine-1"}
    /\ builder # None /\ builder[1].kind = "continued"
    /\ Len(builder[1].appended) > 1

\* C8 as claimed: the schema of every emitted descriptor contains X, Y, Z,
\* PointId and OriginId, and no name occurs in it twice.
C8_SchemaNamesCompleteAndUnique ==
    Emitted =>
        LET names == DimNames(builder[1].schema)
        IN  /\ {"X", "Y", "Z", "PointId", "OriginId"} \subseteq Range(names)
            /\ \A i, j \in 1..Len(names) : names[i] = names[j] => i = j

\* The descriptor's schema was synthesized from the inference.
Synthesized == Emitted /\ inferred # None /\ ~UserHas("schema")

\* The largest numPoints of the manifest's files.
LargestNumPoints ==
    LET counts == {builder[1].manifest[i].numPoints :
                      i \in 1..Len(builder[1].manifest)} \cup {0}
    IN  CHOOSE m \in counts : \A n \in counts : n <= m

\* The two dimensions the synthesis appends.
SynthPointId == builder[1].schema[Len(builder[1].schema) - 1]
SynthOriginId == builder[1].schema[Len(builder[1].schema)]

\* C9: in a synthesized schema PointId is 4 bytes if the largest numPoints of
\* a file fits in uint32 and 8 bytes otherwise, and OriginId is 4 bytes if
\* the number of file slots, omitted files included, fits in uint32 and 8
\* bytes otherwise.
C9_IdSizes ==
    Synthesized =>
        /\ SynthPointId.name = "PointId"
        /\ SynthPointId.size \in {4, 8}
        /\ SynthPointId.size = 4 <=> LargestNumPoints <= UInt32Max
        /\ SynthOriginId.name = "OriginId"
        /\ SynthOriginId.size \in {4, 8}
        /\ SynthOriginId.size = 4 <=> Len(builder[1].manifest) <= UInt32Max

\* C9's case: the file slots, one of them omitted, do not fit in uint32 while
\* every file's numPoints does.
C9_Witness ==
    /\ Synthesized
    /\ \E i \in 1..Len(builder[1].manifest) :
          builder[1].manifest[i].status = "omitted"
    /\ SynthOriginId.size = 8
    /\ SynthPointId.size = 4

-----------------------------------------------------------------------------
(* Properties of the offset rounding (specification SpecOffset). *)

\* C10 as claimed: the offset chosen for an axis is a multiple of 10 and
\* within 10 of the rounded midpoint, whatever the midpoint.
C10_OffsetWithinTen ==
    (offset # None /\ bPc = "idle") =>
        /\ offset[1] % 10 = 0
        /\ Abs(offset[1] - RoundDiv(offMid2, 2)) <= 10

-----------------------------------------------------------------------------
(* Further properties of Inference::go (specification Spec). *)

\* go has returned or thrown.
Ended == goPc \in {"done", "failed"}

\* The files the reader rejects.
Rejected == {i \in Files : ~World[m_fileInfo[i].path].good}

\* Some accepted file yielded points and bounds, names were merged, and no
\* task failed: without the rejected files the run would succeed.
OthersYield ==
    /\ \E j \in Files \ Rejected :
          /\ m_fileInfo[j].bounds # None
          /\ m_fileInfo[j].bounds[1] # expander
          /\ m_fileInfo[j].numPoints > 0
    /\ m_dimVec # << >>
    /\ poolErrs = << >>

\* C11 as claimed: a rejected file is marked omitted when the loop passes it
\* and never gets a task, and a run with a rejected file in which another
\* file yields points and bounds ends successfully, with Cesium output too.
C11_RejectedFileNeverAborts ==
    /\ \A i \in Rejected :
          /\ task[i].pc = "idle"
          /\ (goPc # "ready" /\ m_index > i) => m_fileInfo[i].status = "omitted"
    /\ (Ended /\ Rejected # {} /\ OthersYield) => goPc = "done"

\* The part of C11 that holds: the same without Cesium output.
C11_WithoutCesium ==
    /\ \A i \in Rejected :
          /\ task[i].pc = "idle"
          /\ (goPc # "ready" /\ m_index > i) => m_fileInfo[i].status = "omitted"
    /\ (Ended /\ Rejected # {} /\ OthersYield /\ ~m_cesiumify) => goPc = "done"

\* The probe of file i ran the full scan and the scan failed.
ScanFailed(i) ==
    /\ task[i].pc \in {"recorded", "done"}
    /\ ~(m_trustHeaders /\ task[i].preview # None)
    /\ World[m_fileInfo[i].path].scan = None

\* C12 as claimed: a file whose full scan failed has status error and holds
\* no points and no bounds, and unless a task failed the run goes on to
\* aggregate.
C12_ScanFailureMarksError ==
    \A i \in Files :
        ScanFailed(i) =>
            /\ m_fileInfo[i].status = "error"
            /\ m_fileInfo[i].numPoints = 0
            /\ m_fileInfo[i].bounds = None
            /\ (Ended /\ poolErrs = << >>) => m_numPoints # None

\* The part of C12 that holds: everything but the status, which stays what
\* it was.
C12_ScanFailureContributesNothing ==
    \A i \in Files :
        ScanFailed(i) =>
            /\ m_fileInfo[i].status = "outstanding"
            /\ m_fileInfo[i].numPoints = 0
            /\ m_fileInfo[i].bounds = None
            /\ (Ended /\ poolErrs = << >>) => m_numPoints # None

\* The part of C12 about the other files: the step in which a probe records
\* or fails to record leaves every other file's record as it was.
C12_OtherRecordsUnaffected ==
    [][\A i \in Files :
          (task[i].pc = "merged" /\ task'[i].pc # "merged") =>
              \A j \in Files \ {i} : m_fileInfo'[j] = m_fileInfo[j]]_vars

\* C13: go is done only if a file was accepted, the aggregated numPoints is
\* positive, the schema's point size is positive and the global bounds are
\* not the expander; a failure leaves the done flag false; and each of
\* NoValidInputs, ZeroPoints, EmptySchema and NoBounds is the error of exactly
\* its own violated condition, tested in that order.
C13_DoneOnlyIfPostConditions ==
    /\ m_done =>
          /\ goPc = "done"
          /\ valid
          /\ m_numPoints[1] > 0
          /\ PointSize(m_schema[1]) > 0
          /\ m_bounds[1] # expander
    /\ goPc = "failed" => ~m_done
    /\ (goPc = "failed" /\ poolErrs = << >> /\ goErr # "MissingBoundsForTransform") =>
          /\ goErr = "NoValidInputs" <=> ~valid
          /\ goErr = "ZeroPoints" <=> (valid /\ m_numPoints = Some(0))
          /\ goErr = "EmptySchema" <=>
                /\ valid /\ m_numPoints # None /\ m_numPoints[1] > 0
                /\ PointSize(m_schema[1]) = 0
          /\ goErr = "NoBounds" <=>
                /\ valid /\ m_numPoints # None /\ m_numPoints[1] > 0
                /\ PointSize(m_schema[1]) > 0
                /\ m_bounds[1] = expander
          /\ goErr \in {"NoValidInputs", "ZeroPoints", "EmptySchema", "NoBounds"}

\* C13's case: points and a schema were found but no bounds, and go failed
\* with NoBounds without becoming done.
C13_Witness ==
    /\ goPc = "failed"
    /\ goErr = "NoBounds"
    /\ ~m_done
    /\ m_numPoints[1] > 0
    /\ m_bounds[1] = expander

-----------------------------------------------------------------------------
(* Further properties of ConfigParser::getBuilder (specification SpecBuild). *)

\* The depth the configuration holds for k before accommodation: the user's
\* value, or the default.
ConfigDepth(k) == IF UserHas(k) THEN user[k][1] ELSE Defaults[k][1]

SubsetMinimumNullDepth == MinimumNullDepth(UserValue("subset")[1])
SubsetMinimumBaseDepth ==
    MinimumBaseDepth(UserValue("subset")[1], Defaults["pointsPerChunk"][1])

\* C14: in the descriptor of a new build with a subset, nullDepth and baseDepth
\* are the maxima of the configured depth and the subset's minimum, and
\* bumpDepth is present exactly when baseDepth was raised and then holds the
\* configured baseDepth; with no subset both depths are the configured ones
\* and bumpDepth is absent.
C14_SubsetDepths ==
    (Done /\ Emitted /\ builder[1].kind = "new") =>
        IF UserHas("subset")
        THEN /\ builder[1].structure["nullDepth"] =
                    Some(Max(ConfigDepth("nullDepth"), SubsetMinimumNullDepth))
             /\ builder[1].structure["baseDepth"] =
                    Some(Max(ConfigDepth("baseDepth"), SubsetMinimumBaseDepth))
             /\ IsMember(builder[1].structure, "bumpDepth") <=>
                    ConfigDepth("baseDepth") < SubsetMinimumBaseDepth
             /\ IsMember(builder[1].structure, "bumpDepth") =>
                    builder[1].structure["bumpDepth"] =
                        Some(ConfigDepth("baseDepth"))
        ELSE /\ builder[1].structure["nullDepth"] =
                    Some(ConfigDepth("nullDepth"))
             /\ builder[1].structure["baseDepth"] =
                    Some(ConfigDepth("baseDepth"))
             /\ ~IsMember(builder[1].structure, "bumpDepth")

\* C14's case: a subset and a low nullDepth were configured; both depths were
\* raised and bumpDepth keeps the default baseDepth.
C14_Witness ==
    /\ Done /\ Emitted /\ builder[1].kind = "new"
    /\ UserHas("subset") /\ UserHas("nullDepth") /\ ~UserHas("baseDepth")
    /\ builder[1].structure["nullDepth"] = Some(SubsetMinimumNullDepth)
    /\ builder[1].structure["baseDepth"] = Some(SubsetMinimumBaseDepth)
    /\ builder[1].structure["bumpDepth"] = Defaults["baseDepth"]

UserCesium == UserHas("formats") /\ "cesium" \in user["formats"][1]

\* C15: a descriptor of a new build with Cesium output reprojects to
\* EPSG:4978 and carries no delta, whatever scale or offset the user or the
\* files give; and a descriptor carries a delta only when absolute is false.
C15_CesiumIsAbsolute ==
    Emitted =>
        /\ UserCesium =>
              /\ builder[1].reprojection # None
              /\ builder[1].reprojection[1].out = "EPSG:4978"
              /\ builder[1].delta = None
        /\ builder[1].delta # None => ~UserAbsolute

\* C15's case: Cesium output with a user scale, files probed, and a
\* descriptor without delta.
C15_Witness ==
    /\ Emitted
    /\ UserCesium
    /\ UserHas("scale")
    /\ inferred # None
    /\ builder[1].delta = None
    /\ builder[1].reprojection[1].out = "EPSG:4978"

-----------------------------------------------------------------------------
(* The Cesium step of Inference::go (specification Spec). *)

\* C16: the step of go after the post-conditions.  In Cesium mode it fails
\* with MissingBoundsForTransform when some record has no bounds, and
\* otherwise every record's bounds become their image under the transformation
\* computed from the aggregated bounds, the global bounds become the expander
\* grown by those images, and go is done.  Outside Cesium mode the step
\* changes no record and no bounds, and there is never a transformation.
C16_CesiumStep ==
    [][/\ goPc = "cesium" =>
             IF \E i \in Files : m_fileInfo[i].bounds = None
             THEN /\ goPc' = "failed"
                  /\ goErr' = "MissingBoundsForTransform"
                  /\ ~m_done'
             ELSE /\ goPc' = "done"
                  /\ m_done'
                  /\ m_transformation' = Some(CalcTransformation(m_bounds[1]))
                  /\ \A i \in Files :
                        m_fileInfo'[i] =
                            [m_fileInfo[i] EXCEPT !.bounds =
                                Some(Transform(m_fileInfo[i].bounds[1],
                                               m_transformation'[1]))]
                  /\ m_bounds' = Some(GrowAll(expander, m_fileInfo'))
       /\ (goPc = "check" /\ ~m_cesiumify) =>
             /\ m_fileInfo' = m_fileInfo
             /\ m_bounds' = m_bounds
       /\ ~m_cesiumify => m_transformation' = None /\ goPc' # "cesium"
      ]_vars

\* C16's case: Cesium mode, two records with bounds, transformed and done.
C16_Witness ==
    /\ m_cesiumify
    /\ goPc = "done"
    /\ Len(m_fileInfo) = 2
    /\ m_transformation # None
    /\ \A i \in Files : m_fileInfo[i].bounds # None
    /\ m_bounds = Some(GrowAll(expander, m_fileInfo))

-----------------------------------------------------------------------------
(* The dimension list under concurrent probes (specification Spec). *)

NoDuplicates(seq) ==
    \A p, q \in 1..Len(seq) : seq[p] = seq[q] => p = q

IsPrefix(s, t) == Len(s) <= Len(t) /\ \A p \in 1..Len(s) : s[p] = t[p]

\* The first position of name d in seq.
FirstIndex(seq, d) ==
    CHOOSE p \in 1..Len(seq) : seq[p] = d /\ \A q \in 1..(p - 1) : seq[q] # d

\* C17: in every interleaving m_dimVec holds no name twice, every step keeps
\* what it held as a prefix, and the merge of a probe appends exactly the
\* names of its preview that were not yet there, in the order of the preview.
C17_DimVecAppendOnly ==
    [][/\ NoDuplicates(m_dimVec')
       /\ IsPrefix(m_dimVec, m_dimVec')
       /\ \A i \in Files :
             (task[i].pc = "locked" /\ task'[i].pc = "merged") =>
                LET names == task[i].preview[1].dimNames
                    added == SubSeq(m_dimVec', Len(m_dimVec) + 1,
                                    Len(m_dimVec'))
                IN  /\ Range(names) \subseteq Range(m_dimVec')
                    /\ Range(added) = Range(names) \ Range(m_dimVec)
                    /\ \A p, q \in 1..Len(added) :
                          p < q => FirstIndex(names, added[p])
                                     < FirstIndex(names, added[q])
       /\ m_dimVec' # m_dimVec =>
             \E i \in Files : task[i].pc = "locked" /\ task'[i].pc = "merged"
      ]_vars

\* C17's case: the second file merged first, so its names come first and the
\* first file's merge added nothing.
C17_Witness ==
    /\ Len(m_fileInfo) = 2
    /\ m_fileInfo[1].path = "a.laz"
    /\ m_fileInfo[2].path = "http://h/c.laz"
    /\ task[1].pc = "done"
    /\ task[2].pc = "done"
    /\ m_dimVec = <<"Z", "X", "Y", "PointId">>

-----------------------------------------------------------------------------
(* Calling Inference::go again (specification Spec). *)

\* C18: once a call of go has ended, done or failed, the pool exists, and every
\* further call throws DoubleRun and leaves the file records, the bounds,
\* numPoints, the schema and the done flag as they were.
C18_SecondCallThrows ==
    [][/\ Ended' => m_pool'
       /\ Ended =>
             /\ goErr2' = "DoubleRun"
             /\ m_fileInfo' = m_fileInfo
             /\ m_bounds' = m_bounds
             /\ m_numPoints' = m_numPoints
             /\ m_schema' = m_schema
             /\ m_done' = m_done
             /\ goPc' = goPc
      ]_vars

\* C18's case: the first call failed after aggregating, and a second call
\* threw DoubleRun.
C18_Witness ==
    /\ goErr2 = "DoubleRun"
    /\ goPc = "failed"
    /\ ~m_done
    /\ m_numPoints # None
    /\ Len(m_fileInfo) > 0

-----------------------------------------------------------------------------
(* When getBuilder runs inference (specification SpecBuild). *)

\* getBuilder returned the builder of an existing build.
ShortCircuited == Done /\ builder # None /\ builder[1].kind = "continued"

\* The normalized configuration holds no value for k.
Missing(k) == Get(normalized[1], k) = None

\* C19 as claimed: without a short circuit, an Inference is run exactly when
\* the normalized configuration holds no value for bounds, schema or
\* numPointsHint.
C19_InferenceIffMissing ==
    (Done /\ ~ShortCircuited) =>
        (inferred # None <=>
            Missing("bounds") \/ Missing("schema") \/ Missing("numPointsHint"))

\* C19, amended: without a short circuit, an Inference is run exactly when the
\* normalized configuration holds no value for bounds or schema, or holds no
\* value or the value 0 for numPointsHint.
C19_InferenceIffMissingOrZeroHint ==
    (Done /\ ~ShortCircuited) =>
        (inferred # None <=>
            \/ Missing("bounds")
            \/ Missing("schema")
            \/ Missing("numPointsHint")
            \/ Get(normalized[1], "numPointsHint") = Some(0))

\* C19's case: all three were configured, the hint nonzero; a descriptor was
\* emitted and no Inference was run.
C19_Witness ==
    /\ Emitted
    /\ ~Missing("bounds") /\ ~Missing("schema")
    /\ AsUInt64(Get(normalized[1], "numPointsHint")) > 0
    /\ inferred = None

-----------------------------------------------------------------------------
(* What a probe records (specification Spec). *)

\* The least and the greatest coordinate of the points on axis a, from the
\* expander's.
AxisMin(points, a) ==
    CHOOSE v \in {DblMax} \cup {points[k][a] : k \in 1..Len(points)} :
        \A k \in 1..Len(points) : v <= points[k][a]
AxisMax(points, a) ==
    CHOOSE v \in {-DblMax} \cup {points[k][a] : k \in 1..Len(points)} :
        \A k \in 1..Len(points) : v >= points[k][a]

PointsBox(points) ==
    Bounds(<<AxisMin(points, 1), AxisMin(points, 2), AxisMin(points, 3)>>,
           <<AxisMax(points, 1), AxisMax(points, 2), AxisMax(points, 3)>>)

\* The points a scan of file i streams, if the scan succeeds.
ScanOf(i) ==
    IF LocalContent(i) = None THEN None
    ELSE World[LocalContent(i)[1]].scan

\* C20: the step of a probe after its merge.  With trustHeaders and a preview
\* the record takes the preview's numPoints and bounds; otherwise the file is
\* scanned and, if the scan succeeds, the record takes the number of scanned
\* points and the expander grown by them, whatever the preview said; a failed
\* scan leaves the record as it was.
C20_RecordsPreviewOrScan ==
    [][\A i \in Files :
          (task[i].pc = "merged" /\ task'[i].pc # "merged") =>
             IF m_trustHeaders /\ task[i].preview # None
             THEN /\ m_fileInfo'[i].numPoints = task[i].preview[1].numPoints
                  /\ m_fileInfo'[i].bounds = Some(task[i].preview[1].bounds)
             ELSE IF ScanOf(i) # None
             THEN /\ m_fileInfo'[i].numPoints = Len(ScanOf(i)[1])
                  /\ m_fileInfo'[i].bounds = Some(PointsBox(ScanOf(i)[1]))
             ELSE m_fileInfo'[i] = m_fileInfo[i]
      ]_vars

\* C20's case: headers are not trusted, the preview of b.laz said 3 points,
\* and the record holds the 2 points of the scan and their box.
C20_Witness ==
    /\ ~m_trustHeaders
    /\ goPc = "submit"
    /\ \E i \in Files :
          /\ m_fileInfo[i].path = "b.laz"
          /\ task[i].pc = "done"
          /\ task[i].preview # None
          /\ m_fileInfo[i].numPoints = 2
          /\ m_fileInfo[i].numPoints # task[i].preview[1].numPoints
          /\ m_fileInfo[i].bounds = Some(Bounds(<<8, -4, -2>>, <<12, 4, 2>>))

-----------------------------------------------------------------------------
(* The global delta under concurrent probes (specification Spec). *)

\* The pool's join has returned and no task had failed.
Joined == goPc \notin {"ready", "submit"} /\ poolErrs = << >>

\* The files whose probe obtained a preview that declares a scale.
Declared == {i \in Files : task[i].preview # None
                              /\ task[i].preview[1].scale # None}

\* C21: after a join without error, if delta is allowed and some preview
\* declared a scale, the global delta's scale is on each axis the least scale
\* any preview declared, whatever the order of the merges; if no preview
\* declared a scale or delta is not allowed there is no global delta.
C21_DeltaScaleIsMinimum ==
    Joined =>
        IF m_allowDelta /\ Declared # {}
        THEN /\ m_delta # None
             /\ \A a \in 1..3 :
                   /\ \E i \in Declared :
                         m_delta[1].scale[a] = task[i].preview[1].scale[1][a]
                   /\ \A i \in Declared :
                         m_delta[1].scale[a] <= task[i].preview[1].scale[1][a]
        ELSE m_delta = None

\* C21's case: two files declared scales that differ on two axes, and the
\* global scale takes x from one and y from the other.
C21_Witness ==
    /\ Joined
    /\ m_allowDelta
    /\ Cardinality(Declared) = 2
    /\ \E i, j \in Declared :
          /\ task[i].preview[1].scale[1] = <<2, 1, 2>>
          /\ task[j].preview[1].scale[1] = <<1, 2, 2>>
    /\ m_delta # None
    /\ m_delta[1].scale = <<1, 1, 2>>

-----------------------------------------------------------------------------
(* The offset as the integer part rounded up (specification SpecOffset). *)

\* The integer part of the midpoint offMid2 / 2.
IntegerPart == TruncDiv(offMid2, 2)

\* The least multiple of 10 that is not below v.
MultipleOfTenFrom(v) == IF v % 10 = 0 THEN v ELSE ((v \div 10) + 1) * 10

\* C22 as claimed: the offset of an axis is the integer part of the midpoint
\* if that is a multiple of 10 and else the next multiple of 10 above it, for
\* negative and for fractional midpoints too.
C22_OffsetIsIntegerPartRoundedUp ==
    (offset # None /\ bPc = "idle") =>
        offset[1] = MultipleOfTenFrom(IntegerPart)

\* The part of C22 that holds: midpoints that are whole and not negative.
C22_WholeNonNegativeMidpoints ==
    (offset # None /\ bPc = "idle" /\ offMid2 >= 0 /\ offMid2 % 2 = 0) =>
        offset[1] = MultipleOfTenFrom(IntegerPart)

-----------------------------------------------------------------------------
(* The merge mutex (specification Spec). *)

\* The tasks inside the metadata merge.
InMerge == {i \in Files : task[i].pc = "locked"}

\* The tasks whose position changes in the step.
Movers == {i \in Files : task'[i].pc # task[i].pc}

\* C23: at most one task is inside the merge and it is the holder of the
\* mutex; while the probes run, a file's SRS, the global delta and the
\* dimension list are written only by the task inside the merge, and only its
\* own SRS; and a task that fetches, previews, writes or removes a temp file
\* or scans does not hold the mutex.
C23_MergeIsExclusive ==
    [][/\ Cardinality(InMerge') <= 1
       /\ \A i \in Files : (i \in InMerge') <=> (m_mutex' = i)
       /\ goPc = "submit" =>
             /\ (m_delta' # m_delta \/ m_dimVec' # m_dimVec) =>
                   (m_mutex # 0 /\ Movers = {m_mutex})
             /\ \A i \in Files :
                   (i <= Len(m_fileInfo') /\ m_fileInfo'[i].srs # m_fileInfo[i].srs)
                       => (m_mutex = i /\ Movers = {i})
       /\ \A i \in Movers :
             task[i].pc \in {"queued", "fetched", "merged", "recorded"}
                 => m_mutex # i
       /\ m_tmp' # m_tmp => \A i \in Movers : m_mutex # i /\ m_mutex' # i
      ]_vars

\* C23's case: one task is inside the merge, another has its preview and
\* waits for the mutex.
C23_Witness ==
    \E i, j \in Files :
        /\ i # j
        /\ task[i].pc = "locked"
        /\ m_mutex = i
        /\ task[j].pc = "previewed"

-----------------------------------------------------------------------------
(* Aggregation after the join (specification Spec). *)

\* go is past m_pool->join().
PastJoin == goPc \notin {"ready", "submit"}

\* C24: when go is past the join every task has ended, and from then on no
\* task takes a step: aggregate and makeSchema read records, a delta and a
\* dimension list that no probe writes any more.
C24_AggregateAfterJoin ==
    [][/\ PastJoin' => \A i \in Files : Finished(i)'
       /\ PastJoin => task' = task /\ m_dimVec' = m_dimVec /\ m_mutex' = 0
       /\ (goPc \in {"aggregate", "schema"} /\ \E i \in Files :
              i <= Len(m_fileInfo') /\ m_fileInfo'[i] # m_fileInfo[i])
             => goPc = "aggregate" /\ goPc' = "schema"
      ]_vars

\* C24's case: two probes have recorded their files and ended, and go is
\* about to aggregate.
C24_Witness ==
    /\ goPc = "aggregate"
    /\ Len(m_fileInfo) = 2
    /\ \A i \in Files : task[i].pc = "done" /\ m_fileInfo[i].bounds # None

-----------------------------------------------------------------------------
(* The temp files of HTTP-derived paths (specification SpecTmp). *)

\* The records whose path is HTTP-derived.
HttpFiles == {i \in Files : World[m_fileInfo[i].path].http}

\* The preview a probe obtained is the one of its own file.
ReadsOwnFile(i) ==
    task[i].preview # None =>
        task[i].preview = World[m_fileInfo[i].path].preview

\* C25 as claimed: two distinct HTTP-derived paths of a run have different
\* temp file names, and a probe of an HTTP-derived path among distinct paths
\* reads its own file and finds it there.
C25_TempNamesDistinct ==
    /\ \A i, j \in HttpFiles :
          m_fileInfo[i].path # m_fileInfo[j].path =>
              TmpName(m_fileInfo[i].path) # TmpName(m_fileInfo[j].path)
    /\ DistinctPaths =>
          \A i \in HttpFiles :
              /\ ReadsOwnFile(i)
              /\ task[i].pc \in {"previewed", "locked", "merged", "recorded"}
                    => task[i].preview # None

\* The part of C25 that holds: probes whose temp file names differ read
\* their own files and find them there.
C25_DistinctNamesDoNotInterfere ==
    DistinctTmpNames =>
        \A i \in HttpFiles :
            /\ ReadsOwnFile(i)
            /\ task[i].pc \in {"previewed", "locked", "merged", "recorded"}
                  => task[i].preview # None
            /\ task[i].pc \in {"fetched", "previewed", "locked", "merged",
                               "recorded"}
                  => LocalContent(i) = Some(m_fileInfo[i].path)

\* The temp file of record i is at the temp endpoint.
TmpPresent(i) == TmpName(m_fileInfo[i].path) \in DOMAIN m_tmp

\* C26 as claimed: when the probe task of an HTTP-derived file has ended, by
\* returning or by failing, its temp file is gone.  (Runs in which two records
\* share a temp file name are left out: there another task may have put the
\* file back.)
C26_TempFileRemoved ==
    DistinctTmpNames =>
        \A i \in HttpFiles :
            task[i].pc \in {"done", "thrown"} => ~TmpPresent(i)

\* The part of C26 that holds: a probe task that returned has removed its
\* temp file, also when it got no preview or its scan failed.
C26_RemovedUnlessThrown ==
    DistinctTmpNames =>
        \A i \in HttpFiles : task[i].pc = "done" => ~TmpPresent(i)

-----------------------------------------------------------------------------
(* Progress through the merge (specification SpecLive). *)

\* The position of the probe task of file i, idle if there is no such file.
PcOf(i) == IF i \in Files THEN task[i].pc ELSE "idle"

\* C27: a task that has left the merge, by returning or by the InvalidScale
\* failure, does not hold the mutex; a held mutex is released again; and every
\* task that waits for the mutex or is inside the merge eventually is past it.
C27_MergeIsLeft ==
    /\ [](\A i \in Files : task[i].pc # "locked" => m_mutex # i)
    /\ (m_mutex # 0) ~> (m_mutex = 0)
    /\ \A i \in 1..MaxFiles :
          (PcOf(i) \in {"previewed", "locked"})
              ~> (PcOf(i) \in {"merged", "recorded", "done", "thrown"})

\* C27's case: one task has failed with InvalidScale inside the merge, and
\* another task holds the mutex after it.
C27_Witness ==
    \E i, j \in Files :
        /\ task[i].pc = "thrown"
        /\ "InvalidScale" \in Range(poolErrs)
        /\ task[j].pc = "locked"
        /\ m_mutex = j

=============================================================================
